---- MODULE Spec2Model ----
(***************************************************************************)
(* Update protocol of a two-party state channel: outbound, inbound and the *)
(* syncer (sync.ts), the helpers of utils.ts, and the parts of the         *)
(* validator, the lock and the messaging service they rely on.             *)
(***************************************************************************)
EXTENDS Integers, Sequences, FiniteSets, TLC

\* ------------------------------------------------------------------ bounds
MaxCalls == 3        \* outbound calls that get to send a message
MaxDeposit == 1      \* cap of alice's on-chain deposit total
MaxAmount == 2       \* largest amount and deposit total handed to a helper
MaxFailing == 26     \* most consecutive provider reads that fail
MaxAssets == 3       \* most asset entries of a channel handed to mergeAssetIds
MaxLookups == 3      \* registry lookups started on one chain reader
MaxRegistryChanges == 1  \* changes of the registry contracts' lists
MaxReadFailures == 6     \* calls of a registry contract that throw
MaxSends == 2            \* calls of sendTxWithRetries on one chain service
MaxNonce == 2            \* largest nonce of a channel state handed to the store
MaxChainDeposits == 1    \* on-chain deposits of one participant
MaxTransferAmount == 3   \* largest amount of a transfer
MaxActive == 2           \* most transfers active at a time
MaxDepositCalls == 3     \* calls of sendDepositTx on one chain service
MaxAttempts == 2         \* submission attempts one call is followed through
MaxTasks == 3            \* runs of autoRebalanceTask

VARIABLES
    store,      \* store[p]: the channel state party p has persisted, or NoChannel
    chain,      \* on-chain deposit totals of the channel
    call,       \* call[p]: the outbound call party p is running (or Idle)
    net,        \* protocol requests sent and not yet handled
    replies,    \* replies[p]: the answer waiting for p's pending request
    calls,      \* outbound calls that sent a message so far
    ev,         \* the handler run of the latest step: its inputs and its outcome
    fn,         \* a call of one of the helper functions: its arguments, its result
    reader,     \* the chain reader: its registry cache, its lookups, the registry contract
    service,    \* the chain service: its transaction queue, its calls, its transactions
    db,         \* the engine store: channels, transfers, active transfers, the last save
    ledger,     \* one channel's balance of an asset, its on-chain deposits, its transfers
    depositor,  \* the chain service's deposit calls, their queue, the channel contract
    router      \* the router's rebalances by swap and its auto-rebalance task

vars == <<store, chain, call, net, replies, calls, ev, fn, reader, service, db, ledger,
          depositor, router>>

Parties == {"alice", "bob"}

Peer(p) == IF p = "alice" THEN "bob" ELSE "alice"

\* ------------------------------------------------------------- data shapes
NoChannel == [exists |-> FALSE]

NoUpdate == [exists |-> FALSE]

NoSig == [by |-> "nobody"]

\* a signature nobody of the channel produced
BadSig == [by |-> "mallory"]

Nonce(state) == IF state = NoChannel THEN 0 ELSE state.nonce

LatestUpdate(state) == IF state = NoChannel THEN NoUpdate ELSE state.latestUpdate

\* The commitment a participant signs: the core channel state, that is the
\* state without networkContext and without latestUpdate.
hashChannelCommitment(state) ==
    [nonce |-> state.nonce, bal |-> state.bal,
     procA |-> state.procA, procB |-> state.procB]

signMessage(signer, hash) == [by |-> signer, h |-> hash]

\* validateChannelSignatures gone wrong: only the signatures that are present
\* are verified, the required signers are not asked for.
validateChannelSignaturesPresent(state, aliceSignature, bobSignature, requiredSigners) ==
    /\ (aliceSignature # NoSig =>
            aliceSignature = signMessage("alice", hashChannelCommitment(state)))
    /\ (bobSignature # NoSig =>
            bobSignature = signMessage("bob", hashChannelCommitment(state)))

\* Required signers must have signed the commitment of `state`; a signature
\* that is present must be valid.
validateChannelSignatures(state, aliceSignature, bobSignature, requiredSigners) ==
    LET hash == hashChannelCommitment(state)
        okA == aliceSignature = signMessage("alice", hash)
        okB == bobSignature = signMessage("bob", hash)
    IN  /\ (aliceSignature # NoSig => okA)
        /\ (bobSignature # NoSig => okB)
        /\ (requiredSigners \in {"alice", "both"} => okA)
        /\ (requiredSigners \in {"bob", "both"} => okB)

\* the state without its networkContext
Core(newState) == [f \in DOMAIN newState \ {"networkContext"} |-> newState[f]]

\* generateSignedChannelCommitment gone wrong: the signature goes to the
\* counterparty's slot.
generateSignedChannelCommitmentSwapped(newState, signer, aliceSignature, bobSignature) ==
    LET hash == hashChannelCommitment(Core(newState)) IN
    IF aliceSignature # NoSig /\ bobSignature # NoSig
    THEN [aliceSignature |-> aliceSignature, bobSignature |-> bobSignature]
    ELSE LET sig == signMessage(signer, hash)
             isAlice == signer # "alice"
         IN  [aliceSignature |-> IF isAlice THEN sig ELSE aliceSignature,
              bobSignature |-> IF isAlice THEN bobSignature ELSE sig]

\* utils.ts generateSignedChannelCommitment: the signer's signature goes to
\* the signer's own slot, the other slot is passed through.
generateSignedChannelCommitment(newState, signer, aliceSignature, bobSignature) ==
    LET hash == hashChannelCommitment(Core(newState)) IN
    IF aliceSignature # NoSig /\ bobSignature # NoSig
    THEN [aliceSignature |-> aliceSignature, bobSignature |-> bobSignature]
    ELSE LET sig == signMessage(signer, hash)
             isAlice == signer = "alice"
         IN  [aliceSignature |-> IF isAlice THEN sig ELSE aliceSignature,
              bobSignature |-> IF isAlice THEN bobSignature ELSE sig]

\* reconcileDeposit gone wrong: the deposits already processed are not
\* subtracted from the on-chain totals.
reconcileDepositWhole(initialBalance, processedDepositA, processedDepositB, totalDepositsAlice, totalDepositsBob) ==
    [balance |-> <<initialBalance[1] + totalDepositsAlice,
                   initialBalance[2] + totalDepositsBob>>,
     totalDepositsAlice |-> totalDepositsAlice,
     totalDepositsBob |-> totalDepositsBob]

\* utils.ts reconcileDeposit, the arithmetic on the two chain reads
reconcileDeposit(initialBalance, processedDepositA, processedDepositB, totalDepositsAlice, totalDepositsBob) ==
    LET depositsToReconcile == <<totalDepositsAlice - processedDepositA,
                                 totalDepositsBob - processedDepositB>>
    IN  [balance |-> <<initialBalance[1] + depositsToReconcile[1],
                       initialBalance[2] + depositsToReconcile[2]>>,
         totalDepositsAlice |-> totalDepositsAlice,
         totalDepositsBob |-> totalDepositsBob]

\* ------------------------------------------------------- decimal strings
\* Amounts, deposit totals and nonces are kept as decimal strings: sequences
\* of the digits 0..9, with Minus in front of a negative number.
Minus == 0 - 1

RECURSIVE ParseDigits(_, _)
\* the number the digits of `str` denote, read after the prefix worth `acc`
ParseDigits(str, acc) ==
    IF str = <<>> THEN acc ELSE ParseDigits(Tail(str), 10 * acc + Head(str))

\* BigNumber.from on a decimal string
BigNumberFrom(str) ==
    IF Head(str) = Minus THEN 0 - ParseDigits(Tail(str), 0) ELSE ParseDigits(str, 0)

RECURSIVE DigitsOf(_)
\* the digits of a natural number, without leading zeros
DigitsOf(n) == IF n < 10 THEN <<n>> ELSE Append(DigitsOf(n \div 10), n % 10)

\* BigNumber toString
toString(n) == IF n < 0 THEN <<Minus>> \o DigitsOf(0 - n) ELSE DigitsOf(n)

\* A chain read that gave a value, and one that failed.
ReadOk(value) == [isError |-> FALSE, value |-> value]

ReadFailed(error) == [isError |-> TRUE, error |-> error]

\* utils.ts reconcileDeposit, the numbers turned back into strings: the
\* balance keeps its `to`, the on-chain totals become the processed totals
reconciled(initialBalance, rec) ==
    [isError |-> FALSE,
     balance |-> [initialBalance EXCEPT
                      !.amount = <<toString(rec.balance[1]), toString(rec.balance[2])>>],
     totalDepositsAlice |-> toString(rec.totalDepositsAlice),
     totalDepositsBob |-> toString(rec.totalDepositsBob)]

\* utils.ts reconcileDeposit as called: the balance and the processed totals
\* are strings, and the two chain reads may fail
reconcileDepositFromChain(initialBalance, processedDepositA, processedDepositB, totalDepositedARes, totalDepositedBRes) ==
    IF totalDepositedARes.isError THEN ReadFailed(totalDepositedARes.error)
    ELSE IF totalDepositedBRes.isError THEN ReadFailed(totalDepositedBRes.error)
    ELSE reconciled(initialBalance,
             reconcileDeposit(<<BigNumberFrom(initialBalance.amount[1]),
                                BigNumberFrom(initialBalance.amount[2])>>,
                              BigNumberFrom(processedDepositA),
                              BigNumberFrom(processedDepositB),
                              totalDepositedARes.value, totalDepositedBRes.value))

\* ------------------------------------------------------ utils.ts mergeAssetIds
\* An asset id is an address written in some letter case.
toLowerCase(asset) == [addr |-> asset.addr, form |-> "lower"]

\* ethers getAddress: the checksummed form of a valid address
getAddress(asset) == [addr |-> asset.addr, form |-> "checksum"]

\* An index of an array that was assigned a value, and one that was not.
Slot(value) == [set |-> TRUE, v |-> value]

Hole == [set |-> FALSE]

\* arr[idx] = value on an array that may be shorter than idx
SetAt(arr, idx, value) ==
    [i \in 1..(IF idx > Len(arr) THEN idx ELSE Len(arr)) |->
        IF i = idx THEN Slot(value) ELSE IF i <= Len(arr) THEN arr[i] ELSE Hole]

\* Array.prototype.includes
includes(arr, value) == \E i \in 1..Len(arr) : arr[i] = Slot(value)

RECURSIVE StringGreater(_, _)
\* a > b on strings: the first differing character decides, a proper prefix
\* is the smaller one
StringGreater(a, b) ==
    IF a = <<>> THEN FALSE
    ELSE IF b = <<>> THEN TRUE
    ELSE IF Head(a) # Head(b) THEN Head(a) > Head(b)
    ELSE StringGreater(Tail(a), Tail(b))

\* mergeAssetIds unprocessedAsset: `a` is the asset in question and that
\* asset is not in the updated arrays yet (`fresh`)
unprocessedAsset(a, asset, fresh) == toLowerCase(a) = toLowerCase(asset) /\ fresh

RECURSIVE reduceProcessed(_, _, _, _, _, _)
\* mergeAssetIds processedAForAsset and processedBForAsset, the reduce from
\* index i on with accumulator prev
reduceProcessed(values, channel, asset, fresh, i, prev) ==
    IF i > Len(values) THEN prev
    ELSE reduceProcessed(values, channel, asset, fresh, i + 1,
             toString(BigNumberFrom(prev)
                      + BigNumberFrom(IF unprocessedAsset(channel.assetIds[i], asset, fresh)
                                      THEN values[i] ELSE <<0>>)))

\* the reduce step gone wrong: the entry replaces the sum so far
addBalanceLast(prev, curr) == [to |-> prev.to, amount |-> curr.amount]

\* mergeAssetIds balanceForAsset, one step of its reduce
addBalance(prev, curr) ==
    [to |-> prev.to,
     amount |-> <<toString(BigNumberFrom(prev.amount[1]) + BigNumberFrom(curr.amount[1])),
                  toString(BigNumberFrom(prev.amount[2]) + BigNumberFrom(curr.amount[2]))>>]

RECURSIVE reduceBalance(_, _, _, _, _)
\* mergeAssetIds balanceForAsset, the reduce from index i on
reduceBalance(channel, asset, fresh, i, prev) ==
    IF i > Len(channel.balances) THEN prev
    ELSE reduceBalance(channel, asset, fresh, i + 1,
             IF unprocessedAsset(channel.assetIds[i], asset, fresh)
             THEN addBalance(prev, channel.balances[i])
             ELSE prev)

RECURSIVE reduceDefund(_, _, _, _, _)
\* mergeAssetIds defundNonceForAsset, the reduce from index i on
reduceDefund(channel, asset, fresh, i, prev) ==
    IF i > Len(channel.defundNonces) THEN prev
    ELSE reduceDefund(channel, asset, fresh, i + 1,
             IF unprocessedAsset(channel.assetIds[i], asset, fresh)
                    /\ StringGreater(prev, channel.defundNonces[i])
             THEN prev
             ELSE channel.defundNonces[i])

\* The five per-asset arrays mergeAssetIds builds.
NoArrays ==
    [assetIds |-> <<>>, processedDepositsA |-> <<>>, processedDepositsB |-> <<>>,
     balances |-> <<>>, defundNonces |-> <<>>]

\* the assignments of one entry to index idx of the five arrays
assignEntry(arrays, idx, asset, processedA, processedB, balance, defundNonce) ==
    [assetIds |-> SetAt(arrays.assetIds, idx, asset),
     processedDepositsA |-> SetAt(arrays.processedDepositsA, idx, processedA),
     processedDepositsB |-> SetAt(arrays.processedDepositsB, idx, processedB),
     balances |-> SetAt(arrays.balances, idx, balance),
     defundNonces |-> SetAt(arrays.defundNonces, idx, defundNonce)]

\* mergeDuplicates gone wrong: the merged entry is written at every duplicate
mergeDuplicatesEvery(channel, arrays, idx, asset, fresh) ==
    assignEntry(arrays, idx, getAddress(asset),
        reduceProcessed(channel.processedDepositsA, channel, asset, TRUE, 1, <<0>>),
        reduceProcessed(channel.processedDepositsB, channel, asset, TRUE, 1, <<0>>),
        reduceBalance(channel, asset, TRUE, 1,
            [to |-> <<channel.alice, channel.bob>>, amount |-> <<(<<0>>), (<<0>>)>>]),
        reduceDefund(channel, asset, TRUE, 1, <<0>>))

\* mergeAssetIds, the forEach callback for an asset with duplicates
mergeDuplicates(channel, arrays, idx, asset, fresh) ==
    IF ~unprocessedAsset(asset, asset, fresh)
    THEN \* only update value once
         arrays
    ELSE assignEntry(arrays, idx, getAddress(asset),
             reduceProcessed(channel.processedDepositsA, channel, asset, fresh, 1, <<0>>),
             reduceProcessed(channel.processedDepositsB, channel, asset, fresh, 1, <<0>>),
             reduceBalance(channel, asset, fresh, 1,
                 [to |-> <<channel.alice, channel.bob>>, amount |-> <<(<<0>>), (<<0>>)>>]),
             reduceDefund(channel, asset, fresh, 1, <<0>>))

\* mergeAssetIds, the forEach callback at index idx
mergeEntry(channel, arrays, idx) ==
    IF \A i \in 1..Len(channel.assetIds) :
           i = idx \/ toLowerCase(channel.assetIds[i]) # toLowerCase(channel.assetIds[idx])
    THEN \* there are no duplicates for this asset
         assignEntry(arrays, idx, getAddress(channel.assetIds[idx]),
                     channel.processedDepositsA[idx], channel.processedDepositsB[idx],
                     channel.balances[idx], channel.defundNonces[idx])
    ELSE mergeDuplicates(channel, arrays, idx, channel.assetIds[idx],
                         ~includes(arrays.assetIds, getAddress(channel.assetIds[idx])))

RECURSIVE mergeFrom(_, _, _)
\* mergeAssetIds, channel.assetIds.forEach from index idx on
mergeFrom(channel, arrays, idx) ==
    IF idx > Len(channel.assetIds) THEN arrays
    ELSE mergeFrom(channel, mergeEntry(channel, arrays, idx), idx + 1)

\* mergeAssetIds, the channel it returns
mergedChannel(channel, arrays) ==
    [channel EXCEPT !.assetIds = arrays.assetIds,
                    !.processedDepositsA = arrays.processedDepositsA,
                    !.processedDepositsB = arrays.processedDepositsB,
                    !.balances = arrays.balances,
                    !.defundNonces = arrays.defundNonces]

\* utils.ts mergeAssetIds
mergeAssetIds(channel) == mergedChannel(channel, mergeFrom(channel, NoArrays, 1))

\* ------------------------------------------------------------ ethReader.ts
\* chain reads are tried this many times, the first call included
ETH_READER_MAX_RETRIES == 5

\* One read through the provider.  `failing` counts down with every read:
\* the reads made while it is positive fail, the ones after them succeed, so
\* the reads made so far are what it has gone down by.
ProviderRead(value, failing) ==
    IF failing > 0
    THEN [isError |-> TRUE, error |-> "rpc error", failing |-> failing - 1]
    ELSE [isError |-> FALSE, value |-> value, failing |-> failing - 1]

RECURSIVE retryWrapper(_, _, _)

\* getTotalDepositedA, the wrapped read after getCode
totalDepositedA(rpc, code) ==
    IF code.isError THEN code
    ELSE IF code.value = "0x"
    THEN \* contract *must* be deployed for alice to have a balance
         [isError |-> FALSE, value |-> 0, failing |-> code.failing]
    ELSE ProviderRead(rpc.totalA, code.failing)

\* getTotalDepositedB gone wrong: treated like alice's total while the
\* contract is not deployed
totalDepositedBZero(rpc, code) ==
    IF code.isError THEN code
    ELSE IF code.value = "0x"
    THEN [isError |-> FALSE, value |-> 0, failing |-> code.failing]
    ELSE ProviderRead(rpc.totalB, code.failing)

\* getTotalDepositedB, the wrapped read after getCode
totalDepositedB(rpc, code) ==
    IF code.isError THEN code
    ELSE IF code.value = "0x"
    THEN \* all balance at channel address *must* be for bob
         retryWrapper("getOnchainBalance", rpc, code.failing)
    ELSE ProviderRead(rpc.totalB, code.failing)

\* the code found at the channel address
CodeAt(rpc) == IF rpc.deployed THEN "0xcode" ELSE "0x"

\* the read each method of the chain reader hands to retryWrapper
targetMethod(method, rpc, failing) ==
    CASE method = "getCode" ->
             ProviderRead(CodeAt(rpc), failing)
      [] method = "getOnchainBalance" -> ProviderRead(rpc.balance, failing)
      [] method = "getTotalDepositedA" ->
             totalDepositedA(rpc, retryWrapper("getCode", rpc, failing))
      [] method = "getTotalDepositedB" ->
             totalDepositedB(rpc, retryWrapper("getCode", rpc, failing))

RECURSIVE retryLoop(_, _, _, _)

\* retryWrapper, the body of its loop: a read that succeeds ends the loop
retryNext(method, rpc, res, retries) ==
    IF ~res.isError THEN res ELSE retryLoop(method, rpc, res, retries + 1)

\* the loop running one time too many
retryLoopOneMore(method, rpc, res, retries) ==
    IF retries <= ETH_READER_MAX_RETRIES
    THEN retryNext(method, rpc, targetMethod(method, rpc, res.failing), retries)
    ELSE res

\* retryWrapper, its loop: for (retries = 1; retries < ETH_READER_MAX_RETRIES; retries++)
retryLoop(method, rpc, res, retries) ==
    IF retries < ETH_READER_MAX_RETRIES
    THEN retryNext(method, rpc, targetMethod(method, rpc, res.failing), retries)
    ELSE res

\* retryWrapper, what it returns after the loop
retryResult(res) ==
    IF res.isError
    THEN [isError |-> TRUE, error |-> "Could not execute rpc method",
          failing |-> res.failing]
    ELSE res

\* retryWrapper, after the first call of the read
retryFirst(method, rpc, res) ==
    IF ~res.isError THEN res ELSE retryResult(retryLoop(method, rpc, res, 1))

\* ethReader.ts retryWrapper
retryWrapper(method, rpc, failing) ==
    IF ~rpc.hasProvider
    THEN [isError |-> TRUE, error |-> "ProviderNotFound", failing |-> failing]
    ELSE retryFirst(method, rpc, targetMethod(method, rpc, failing))

getCode(rpc, failing) == retryWrapper("getCode", rpc, failing)

getOnchainBalance(rpc, failing) == retryWrapper("getOnchainBalance", rpc, failing)

getTotalDepositedA(rpc, failing) == retryWrapper("getTotalDepositedA", rpc, failing)

getTotalDepositedB(rpc, failing) == retryWrapper("getTotalDepositedB", rpc, failing)

\* ---------------------------------------------------------------- validator
\* What a call of the validator, of syncState or of a handler gives back.
Fail(message) == [isError |-> TRUE, message |-> message]

UpdateTypes == {"setup", "deposit"}

\* The state an update of the given type leads to from `previousState`,
\* with the balance and processed totals the update fixes.
applyUpdate(type, nonce, previousState, balance, totalDepositsAlice, totalDepositsBob) ==
    IF type = "setup"
    THEN [nonce |-> nonce, bal |-> <<0, 0>>, procA |-> 0, procB |-> 0]
    ELSE [nonce |-> nonce, bal |-> balance,
          procA |-> totalDepositsAlice, procB |-> totalDepositsBob]

\* Common preconditions and per-type rules on a set of update parameters.
\* The chain reads of a deposit fail when chainOk is FALSE.
validateUpdateParams(type, previousState, initiator, chainOk) ==
    IF type \notin UpdateTypes THEN "InvalidUpdateType"
    ELSE IF type = "setup" /\ previousState # NoChannel THEN "ChannelAlreadySetup"
    ELSE IF type = "setup" /\ initiator # "alice" THEN "InvalidChannelAddress"
    ELSE IF type # "setup" /\ previousState = NoChannel THEN "ChannelNotFound"
    ELSE IF type = "deposit" /\ ~chainOk THEN "ChainServiceFailure"
    ELSE "ok"

\* The next state the parameters lead to, read off the chain for a deposit.
generateUpdate(type, previousState, onchain) ==
    IF type = "setup"
    THEN applyUpdate("setup", 1, previousState, <<0, 0>>, 0, 0)
    ELSE LET rec == reconcileDeposit(previousState.bal, previousState.procA,
                                     previousState.procB, onchain.totA, onchain.totB)
         IN  applyUpdate(type, previousState.nonce + 1, previousState, rec.balance,
                         rec.totalDepositsAlice, rec.totalDepositsBob)

WithUpdate(core, update) ==
    [nonce |-> core.nonce, bal |-> core.bal, procA |-> core.procA,
     procB |-> core.procB, latestUpdate |-> update]

\* The update that proposes `next`, carrying the given signatures.
SignedUpdate(type, from, next, sigs) ==
    [nonce |-> next.nonce, type |-> type, from |-> from,
     bal |-> next.bal, totA |-> next.procA, totB |-> next.procB,
     aliceSignature |-> sigs.aliceSignature, bobSignature |-> sigs.bobSignature]

\* A validator result: the update and the state it leads to.
Applied(next, update) ==
    [isError |-> FALSE, message |-> "ok", update |-> update,
     updatedChannel |-> WithUpdate(next, update)]

\* The proposer's single-signed update for `next`.
ProposeUpdate(signer, type, next) ==
    Applied(next, SignedUpdate(type, signer, next,
                generateSignedChannelCommitment(next, signer, NoSig, NoSig)))

\* Validate locally proposed parameters against the previous state and derive
\* the update, single-signed by the proposer, and the state it leads to.
validateParamsAndApplyUpdate(signer, type, previousState, onchain, chainOk) ==
    IF validateUpdateParams(type, previousState, signer, chainOk) # "ok"
    THEN Fail(validateUpdateParams(type, previousState, signer, chainOk))
    ELSE ProposeUpdate(signer, type, generateUpdate(type, previousState, onchain))

\* A double-signed update is applied as it stands; both signatures must be
\* valid for the state it leads to.
ApplyDoubleSigned(update, next) ==
    IF ~validateChannelSignatures(next, update.aliceSignature, update.bobSignature, "both")
    THEN Fail("BadSignatures")
    ELSE Applied(next, update)

\* The received update with the signatures of the countersigned commitment.
WithSignatures(update, sigs) ==
    [update EXCEPT !.aliceSignature = sigs.aliceSignature,
                   !.bobSignature = sigs.bobSignature]

\* A single-signed update: the sender's signature must be valid for the state
\* derived locally, which the receiver then countersigns.
Countersign(signer, update, next) ==
    IF ~validateChannelSignatures(next, update.aliceSignature, update.bobSignature,
                                  Peer(signer))
    THEN Fail("BadSignatures")
    ELSE Applied(next, WithSignatures(update,
             generateSignedChannelCommitment(next, signer, update.aliceSignature,
                                             update.bobSignature)))

\* Validate an update received from the counterparty against the local
\* previous state.
validateAndApplyInboundUpdate(signer, update, previousState, onchain, chainOk) ==
    IF update = NoUpdate \/ update.type \notin UpdateTypes THEN Fail("MalformedUpdate")
    ELSE IF update.nonce # Nonce(previousState) + 1 THEN Fail("InvalidUpdateNonce")
    ELSE IF update.aliceSignature # NoSig /\ update.bobSignature # NoSig
    THEN IF update.type # "setup" /\ previousState = NoChannel THEN Fail("ChannelNotFound")
         ELSE ApplyDoubleSigned(update,
                  applyUpdate(update.type, update.nonce, previousState,
                              update.bal, update.totA, update.totB))
    ELSE IF validateUpdateParams(update.type, previousState, update.from, chainOk) # "ok"
    THEN Fail(validateUpdateParams(update.type, previousState, update.from, chainOk))
    ELSE Countersign(signer, update, generateUpdate(update.type, previousState, onchain))

\* ------------------------------------------------------------------ sync.ts
\* Environment faults one handler run can meet: a store read that throws, a
\* chain read that fails, a save that throws (in syncState or the final one).
Faults == {"none", "load", "chain", "save", "saveSync"}

SigA(update) == IF update = NoUpdate THEN NoSig ELSE update.aliceSignature

SigB(update) == IF update = NoUpdate THEN NoSig ELSE update.bobSignature

\* the message syncState fails with on an update that is not double signed
CannotSyncSingleSigned == "Cannot sync single signed state"

\* syncStateSave gone wrong: the exception of saveChannelState is swallowed
\* and the sync reports success although nothing was persisted.
syncStateSaveSwallowed(validateRes, fail) ==
    IF validateRes.isError THEN Fail(validateRes.message)
    ELSE [isError |-> FALSE, message |-> "ok",
          updatedChannel |-> validateRes.updatedChannel,
          saved |-> IF fail = "saveSync" THEN <<>> ELSE <<validateRes.updatedChannel>>]

\* syncStateSave gone wrong: the validated state is returned, never persisted.
syncStateSaveSkipped(validateRes, fail) ==
    IF validateRes.isError THEN Fail(validateRes.message)
    ELSE [isError |-> FALSE, message |-> "ok",
          updatedChannel |-> validateRes.updatedChannel, saved |-> <<>>]

\* sync.ts syncState, the save of the validated state.  `saved` lists the
\* states handed to saveChannelState.
syncStateSave(validateRes, fail) ==
    IF validateRes.isError THEN Fail(validateRes.message)
    ELSE IF fail = "saveSync" THEN Fail("saveChannelState threw")
    ELSE [isError |-> FALSE, message |-> "ok",
          updatedChannel |-> validateRes.updatedChannel,
          saved |-> <<validateRes.updatedChannel>>]

\* syncState gone wrong: the type of the update to sync is not looked at.
syncStateAnyType(toSync, previousState, signer, onchain, fail) ==
    IF toSync.aliceSignature = NoSig \/ toSync.bobSignature = NoSig
    THEN Fail(CannotSyncSingleSigned)
    ELSE syncStateSave(validateAndApplyInboundUpdate(
                           signer, toSync, previousState, onchain, fail # "chain"), fail)

\* sync.ts syncState
syncState(toSync, previousState, signer, onchain, fail) ==
    IF toSync.type = "setup" THEN Fail("CannotSyncSetup")
    ELSE IF toSync.aliceSignature = NoSig \/ toSync.bobSignature = NoSig
    THEN Fail(CannotSyncSingleSigned)
    ELSE syncStateSave(validateAndApplyInboundUpdate(
                           signer, toSync, previousState, onchain, fail # "chain"), fail)

\* handleError gone wrong: the message of syncState is reported as the reason.
HandleSyncErrorPlain(message) ==
    [isError |-> TRUE, message |-> message, syncError |-> message]

\* the handleError callbacks inbound and syncStateAndRecreateUpdate hand to syncState
HandleSyncError(message) ==
    [isError |-> TRUE,
     message |-> IF message # "CannotSyncSetup" THEN "SyncFailure" ELSE "CannotSyncSetup",
     syncError |-> message]

\* The reply inbound leaves in the sender's inbox.
ErrorReply(reason, update) == [isError |-> TRUE, message |-> reason, update |-> update]

AckReply(update) == [isError |-> FALSE, message |-> "ack", update |-> update]

NoReply == [exists |-> FALSE]

\* What one run of inbound did: the reply it sent (NoReply when it threw before
\* replying), the states it saved in order, and the store it leaves.
InboundOutcome(reply, syncError, saved, stored) ==
    [threw |-> reply = NoReply, reply |-> reply, syncError |-> syncError,
     saved |-> saved, channel |-> IF saved = <<>> THEN stored ELSE saved[Len(saved)]]

\* the stale test gone wrong: an update at the stored nonce is processed
IsStaleStrict(diff) == diff < 0

\* the restore test gone wrong: three updates behind is let through
NeedsRestoreLate(diff) == diff > 3

\* inbound: "if we are ahead, or even, do not process update"
IsStale(diff) == diff <= 0

\* inbound: more than one update behind, the counterparty's latest update
\* cannot bring us up to date
NeedsRestore(diff) == diff >= 3

\* sync.ts inbound, the save of the validated update and the reply
inboundSave(update, channelFromStore, saved, fail, validateRes) ==
    IF validateRes.isError
    THEN InboundOutcome(ErrorReply(validateRes.message, update), "", saved, channelFromStore)
    ELSE IF fail = "save"
    THEN InboundOutcome(ErrorReply("SaveChannelFailed", update), "", saved, channelFromStore)
    ELSE InboundOutcome(AckReply(validateRes.updatedChannel.latestUpdate), "",
                        Append(saved, validateRes.updatedChannel), channelFromStore)

\* sync.ts inbound, the reply to a failed sync
inboundSyncError(previousUpdate, channelFromStore, error) ==
    InboundOutcome(ErrorReply(error.message, previousUpdate), error.syncError,
                   <<>>, channelFromStore)

\* sync.ts inbound, after the sync of the previous update
inboundSynced(signer, update, previousUpdate, channelFromStore, onchain, fail, syncRes) ==
    IF syncRes.isError
    THEN inboundSyncError(previousUpdate, channelFromStore, HandleSyncError(syncRes.message))
    ELSE inboundSave(update, channelFromStore, syncRes.saved, fail,
             validateAndApplyInboundUpdate(signer, update, syncRes.updatedChannel,
                                           onchain, fail # "chain"))

\* sync.ts inbound
inbound(signer, update, previousUpdate, channelFromStore, onchain, fail) ==
    LET prevNonce == Nonce(channelFromStore)
        diff == update.nonce - prevNonce
    IN
    IF fail = "load"
    THEN InboundOutcome(ErrorReply("StoreFailure", update), "", <<>>, channelFromStore)
    ELSE IF IsStale(diff)
    THEN IF channelFromStore = NoChannel
         THEN \* channelFromStore!.latestUpdate on undefined: TypeError, no reply
              InboundOutcome(NoReply, "", <<>>, channelFromStore)
         ELSE InboundOutcome(ErrorReply("StaleUpdate", channelFromStore.latestUpdate),
                             "", <<>>, channelFromStore)
    ELSE IF NeedsRestore(diff)
    THEN InboundOutcome(ErrorReply("RestoreNeeded", update), "", <<>>, channelFromStore)
    ELSE IF diff = 2 /\ previousUpdate = NoUpdate
    THEN InboundOutcome(ErrorReply("StaleChannel", update), "", <<>>, channelFromStore)
    ELSE inboundSynced(signer, update, previousUpdate, channelFromStore, onchain, fail,
             IF diff = 2
             THEN syncState(previousUpdate, channelFromStore, signer, onchain, fail)
             ELSE [isError |-> FALSE, message |-> "ok",
                   updatedChannel |-> channelFromStore, saved |-> <<>>])

\* What syncStateAndRecreateUpdate gives back when it fails.
SyncFailed(message, syncError, saved) ==
    [isError |-> TRUE, message |-> message, syncError |-> syncError, saved |-> saved]

\* sync.ts syncStateAndRecreateUpdate, the result of regenerating the update
regenerated(syncedChannel, saved, validationRes) ==
    IF validationRes.isError
    THEN SyncFailed("RegenerateUpdateFailed", "", saved)
    ELSE [isError |-> FALSE, message |-> "ok", syncError |-> "", saved |-> saved,
          update |-> validationRes.update, updatedChannel |-> validationRes.updatedChannel,
          syncedChannel |-> syncedChannel]

\* the failure of syncStateAndRecreateUpdate on a failed sync
recreateSyncError(error) == SyncFailed(error.message, error.syncError, <<>>)

\* sync.ts syncStateAndRecreateUpdate, after the sync: the update is
\* regenerated on top of the synced channel
recreateUpdate(type, signer, onchain, fail, syncRes) ==
    IF syncRes.isError
    THEN recreateSyncError(HandleSyncError(syncRes.message))
    ELSE regenerated(syncRes.updatedChannel, syncRes.saved,
             validateParamsAndApplyUpdate(signer, type, syncRes.updatedChannel,
                                          onchain, fail # "chain"))

\* sync.ts syncStateAndRecreateUpdate, called by outbound with the StaleUpdate
\* error it received
syncStateAndRecreateUpdate(receivedError, type, previousState, signer, onchain, fail) ==
    IF receivedError.update = NoUpdate
    THEN SyncFailed("NoUpdateToSync", "", <<>>)
    ELSE IF receivedError.update.nonce - Nonce(previousState) # 1
    THEN IF previousState = NoChannel
         THEN \* previousState.nonce on undefined: the call throws a TypeError
              SyncFailed("TypeError", "", <<>>)
         ELSE SyncFailed("RestoreNeeded", "", <<>>)
    ELSE recreateUpdate(type, signer, onchain, fail,
             syncState(receivedError.update, previousState, signer, onchain, fail))

\* What a run of outbound has come to: `sends` protocol messages sent so far,
\* the states it saved in its latest step, and, when it is over, its result.
OutboundOutcome(done, isError, message, syncError, sends, saved) ==
    [done |-> done, isError |-> isError, message |-> message,
     syncError |-> syncError, sends |-> sends, saved |-> saved]

Idle == [pc |-> "idle"]

Request(from, update, previousUpdate) ==
    [from |-> from, update |-> update, previousUpdate |-> previousUpdate, live |-> TRUE]

\* What a step of outbound leaves: its outcome, the call (Idle when it is
\* over) and the message it sent.
Ended(isError, message, syncError, sends, saved) ==
    [out |-> OutboundOutcome(TRUE, isError, message, syncError, sends, saved),
     call |-> Idle, send |-> {}]

\* sync.ts outbound: sendProtocolMessage of the update, the call waits
outboundSend(signer, type, previousState, update, updatedChannel, previousUpdate, sends, loaded, saved) ==
    [out |-> OutboundOutcome(FALSE, FALSE, "pending", "", sends, saved),
     call |-> [pc |-> "await", type |-> type, previousState |-> previousState,
               update |-> update, updatedChannel |-> updatedChannel,
               sends |-> sends, loaded |-> loaded],
     send |-> {Request(signer, update, previousUpdate)}]

\* outboundGenerated gone wrong: the result of the validation is not looked
\* at before the message goes out.
outboundGeneratedUnchecked(signer, type, previousState, updateRes) ==
    outboundSend(signer, type, previousState,
                 IF updateRes.isError THEN NoUpdate ELSE updateRes.update,
                 IF updateRes.isError THEN previousState ELSE updateRes.updatedChannel,
                 LatestUpdate(previousState), 1, Nonce(previousState), <<>>)

\* sync.ts outbound, the first send of the generated update
outboundGenerated(signer, type, previousState, updateRes) ==
    IF updateRes.isError
    THEN Ended(TRUE, updateRes.message, "", 0, <<>>)
    ELSE outboundSend(signer, type, previousState, updateRes.update,
                      updateRes.updatedChannel, LatestUpdate(previousState),
                      1, Nonce(previousState), <<>>)

\* sync.ts outbound, up to the first sendProtocolMessage
outboundStart(signer, type, channelFromStore, onchain, fail) ==
    IF fail = "load"
    THEN Ended(TRUE, "StoreFailure", "", 0, <<>>)
    ELSE outboundGenerated(signer, type, channelFromStore,
             validateParamsAndApplyUpdate(signer, type, channelFromStore, onchain,
                                          fail # "chain"))

\* outboundFinish gone wrong: the counterparty's error is handed to the caller
\* under its own reason.
outboundFinishRelays(c, counterpartyResult, fail) ==
    IF counterpartyResult.isError
    THEN Ended(TRUE, counterpartyResult.message, "", c.sends, <<>>)
    ELSE IF ~validateChannelSignatures(c.updatedChannel, SigA(counterpartyResult.update),
                                       SigB(counterpartyResult.update), "both")
    THEN Ended(TRUE, "BadSignatures", "", c.sends, <<>>)
    ELSE IF fail = "save"
    THEN Ended(TRUE, "SaveChannelFailed", "", c.sends, <<>>)
    ELSE Ended(FALSE, "ok", "", c.sends,
               <<[c.updatedChannel EXCEPT !.latestUpdate = counterpartyResult.update]>>)

\* outboundFinish gone wrong: the counterparty's signatures are not verified.
outboundFinishUnverified(c, counterpartyResult, fail) ==
    IF counterpartyResult.isError
    THEN Ended(TRUE, IF counterpartyResult.message = "Timeout"
                     THEN "CounterpartyOffline" ELSE "CounterpartyFailure",
               "", c.sends, <<>>)
    ELSE IF fail = "save"
    THEN Ended(TRUE, "SaveChannelFailed", "", c.sends, <<>>)
    ELSE Ended(FALSE, "ok", "", c.sends,
               <<[c.updatedChannel EXCEPT !.latestUpdate = counterpartyResult.update]>>)

\* sync.ts outbound, from the error check on the counterparty's answer to the end
outboundFinish(c, counterpartyResult, fail) ==
    IF counterpartyResult.isError
    THEN Ended(TRUE, IF counterpartyResult.message = "Timeout"
                     THEN "CounterpartyOffline" ELSE "CounterpartyFailure",
               "", c.sends, <<>>)
    ELSE IF ~validateChannelSignatures(c.updatedChannel, SigA(counterpartyResult.update),
                                       SigB(counterpartyResult.update), "both")
    THEN Ended(TRUE, "BadSignatures", "", c.sends, <<>>)
    ELSE IF fail = "save"
    THEN Ended(TRUE, "SaveChannelFailed", "", c.sends, <<>>)
    ELSE Ended(FALSE, "ok", "", c.sends,
               <<[c.updatedChannel EXCEPT !.latestUpdate = counterpartyResult.update]>>)

\* outboundResend gone wrong: the update generated before the sync is sent again.
outboundResendSame(signer, c, syncedResult) ==
    IF syncedResult.isError
    THEN Ended(TRUE, syncedResult.message, syncedResult.syncError, c.sends,
               syncedResult.saved)
    ELSE outboundSend(signer, c.type, syncedResult.syncedChannel, c.update,
                      c.updatedChannel, syncedResult.updatedChannel.latestUpdate,
                      c.sends + 1, c.loaded, syncedResult.saved)

\* sync.ts outbound, after syncStateAndRecreateUpdate: the regenerated update
\* is sent
outboundResend(signer, c, syncedResult) ==
    IF syncedResult.isError
    THEN Ended(TRUE, syncedResult.message, syncedResult.syncError, c.sends,
               syncedResult.saved)
    ELSE outboundSend(signer, c.type, syncedResult.syncedChannel, syncedResult.update,
                      syncedResult.updatedChannel,
                      syncedResult.updatedChannel.latestUpdate,
                      c.sends + 1, c.loaded, syncedResult.saved)

\* outboundResume gone wrong: every StaleUpdate answer starts a sync and a resend.
outboundResumeAgain(signer, c, counterpartyResult, onchain, fail) ==
    IF counterpartyResult.isError /\ counterpartyResult.message = "StaleUpdate"
    THEN outboundResend(signer, c,
             syncStateAndRecreateUpdate(counterpartyResult, c.type, c.previousState,
                                        signer, onchain, fail))
    ELSE outboundFinish(c, counterpartyResult, fail)

\* sync.ts outbound, resumed with the counterparty's answer to the message it
\* sent: the first answer may start the sync and the resend, the second may not.
outboundResume(signer, c, counterpartyResult, onchain, fail) ==
    IF c.sends = 1 /\ counterpartyResult.isError /\ counterpartyResult.message = "StaleUpdate"
    THEN outboundResend(signer, c,
             syncStateAndRecreateUpdate(counterpartyResult, c.type, c.previousState,
                                        signer, onchain, fail))
    ELSE outboundFinish(c, counterpartyResult, fail)

\* --------------------------------------------------------------- messages
\* What arrives need not be what an honest counterparty sent.  A request can
\* arrive without its previous update, with a signature stripped from the
\* previous update, with another nonce on the update, or with a foreign
\* signature on the update.
RequestFaults == {"noPrev", "prevSingle", "nonce", "badSig"}

ReceivedRequests(m, kind) ==
    IF kind = "asSent" THEN {m}
    ELSE IF kind = "noPrev"
    THEN {[m EXCEPT !.previousUpdate = NoUpdate]} \ {m}
    ELSE IF kind = "prevSingle"
    THEN IF m.previousUpdate = NoUpdate THEN {}
         ELSE {[m EXCEPT !.previousUpdate.aliceSignature = NoSig],
               [m EXCEPT !.previousUpdate.bobSignature = NoSig]} \ {m}
    ELSE IF kind = "nonce"
    THEN {[m EXCEPT !.update.nonce = n] : n \in {0, m.update.nonce + 1, m.update.nonce + 2}} \ {m}
    ELSE IF m.from = "alice"
         THEN {[m EXCEPT !.update.aliceSignature = BadSig]}
         ELSE {[m EXCEPT !.update.bobSignature = BadSig]}

\* An answer can arrive turned into a StaleUpdate error that carries the
\* peer's latest update, with a signature stripped from the update it
\* carries, with that update's nonce raised, or, for an error, without the
\* update in its context.
ReplyFaults == {"stale", "stripSig", "nonce", "noUpdate"}

ReceivedReplies(r, peerState, kind) ==
    IF kind = "asSent" \/ r.message = "Timeout" THEN {r}
    ELSE IF kind = "stale"
    THEN {ErrorReply("StaleUpdate", LatestUpdate(peerState))} \ {r}
    ELSE IF kind = "noUpdate"
    THEN IF r.isError THEN {[r EXCEPT !.update = NoUpdate]} \ {r} ELSE {}
    ELSE IF r.update = NoUpdate THEN {}
    ELSE IF kind = "stripSig"
    THEN {[r EXCEPT !.update.aliceSignature = NoSig],
          [r EXCEPT !.update.bobSignature = NoSig]} \ {r}
    ELSE {[r EXCEPT !.update.nonce = @ + 1]}

\* ------------------------------------------------------------ state machine
\* No handler ran in the latest step.
NoEvent == [op |-> "none"]

\* No helper function is being called.
NoCall == [op |-> "none"]

\* no deposit calls followed
NoDepositor == [calls |-> "none"]

\* no router followed through its rebalances
NoRouter == [tasks |-> "none"]

\* no channel followed through its deposits and transfers
NoLedger == [path |-> "none"]

\* no engine store in use
NoStore == [saves |-> "none"]

\* no chain service in use
NoService == [sends |-> "none"]

\* no chain reader in use
NoReader == [tasks |-> "none"]

Init ==
    /\ store = [p \in Parties |-> NoChannel]
    /\ chain = [totA |-> 0, totB |-> 0]
    /\ call = [p \in Parties |-> Idle]
    /\ net = {}
    /\ replies = [p \in Parties |-> NoReply]
    /\ calls = 0
    /\ ev = NoEvent
    /\ fn = NoCall
    /\ reader = NoReader
    /\ service = NoService
    /\ db = NoStore
    /\ ledger = NoLedger
    /\ depositor = NoDepositor
    /\ router = NoRouter

\* the lock gone wrong: it is granted whoever holds it
LockIgnored(p) == TRUE

\* The channel lock of party p is free: no outbound call of p is between its
\* load and its end.
LockFree(p) == call[p].pc = "idle"

\* the store after a step that saved the states `saved` in order
AfterSaves(stored, saved) == IF saved = <<>> THEN stored ELSE saved[Len(saved)]

\* A deposit of one unit by alice reaches the channel on chain.
ChainDeposit ==
    /\ ev = NoEvent
    /\ chain.totA < MaxDeposit
    /\ chain' = [chain EXCEPT !.totA = @ + 1]
    /\ ev' = NoEvent
    /\ UNCHANGED <<store, call, net, replies, calls, fn, reader, service, db, ledger, depositor, router>>

\* Party p calls outbound with parameters of the given type; the call holds
\* p's channel lock until it returns.
OutboundStart(p, type, fail) ==
    /\ ev = NoEvent
    /\ call[p].pc = "idle"
    /\ calls < MaxCalls
    /\ LET r == outboundStart(p, type, store[p], chain, fail) IN
       /\ call' = [call EXCEPT ![p] = r.call]
       /\ net' = net \cup r.send
       /\ calls' = IF r.send = {} THEN calls ELSE calls + 1
       /\ ev' = [op |-> "outbound", party |-> p, type |-> type, fail |-> fail,
                 attempt |-> 0, loaded |-> Nonce(store[p]), replaced |-> store[p],
                 derived |-> NoChannel,
                 asSent |-> TRUE, answer |-> NoReply, out |-> r.out, sent |-> r.send]
    /\ UNCHANGED <<store, chain, replies, fn, reader, service, db, ledger, depositor, router>>

\* The pending outbound call of p resumes with the answer to its message.
OutboundResume(p, kind, fail) ==
    /\ ev = NoEvent
    /\ call[p].pc = "await"
    /\ replies[p] # NoReply
    /\ \E answer \in ReceivedReplies(replies[p], store[Peer(p)], kind) :
       LET r == outboundResume(p, call[p], answer, chain, fail) IN
       /\ call' = [call EXCEPT ![p] = r.call]
       /\ net' = net \cup r.send
       /\ store' = [store EXCEPT ![p] = AfterSaves(@, r.out.saved)]
       /\ ev' = [op |-> "outbound", party |-> p, type |-> call[p].type, fail |-> fail,
                 attempt |-> call[p].sends, loaded |-> call[p].loaded,
                 derived |-> call[p].updatedChannel,
                 replaced |-> store[p], asSent |-> kind = "asSent", answer |-> answer,
                 out |-> r.out, sent |-> r.send]
    /\ replies' = [replies EXCEPT ![p] = NoReply]
    /\ UNCHANGED <<chain, calls, fn, reader, service, db, ledger, depositor, router>>

\* The messaging service gives up on p's pending request: the call gets a
\* Timeout error and nobody listens to that request's inbox any more.  The
\* request itself is lost, or stays on its way to the peer.
Timeout(p, lost) ==
    /\ ev = NoEvent
    /\ call[p].pc = "await"
    /\ replies[p] = NoReply
    /\ replies' = [replies EXCEPT ![p] = ErrorReply("Timeout", NoUpdate)]
    /\ net' = IF lost THEN {m \in net : m.from # p \/ ~m.live}
              ELSE {IF m.from = p THEN [m EXCEPT !.live = FALSE] ELSE m : m \in net}
    /\ ev' = NoEvent
    /\ UNCHANGED <<store, chain, call, calls, fn, reader, service, db, ledger, depositor, router>>

\* Party q handles a protocol request under its channel lock.
Inbound(q, m, kind, fail) ==
    /\ ev = NoEvent
    /\ m \in net
    /\ m.from = Peer(q)
    /\ LockFree(q)
    /\ \E got \in ReceivedRequests(m, kind) :
       LET r == inbound(q, got.update, got.previousUpdate, store[q], chain, fail) IN
       /\ store' = [store EXCEPT ![q] = r.channel]
       /\ replies' = IF m.live /\ ~r.threw
                     THEN [replies EXCEPT ![m.from] = r.reply]
                     ELSE replies
       /\ ev' = [op |-> "inbound", party |-> q, fail |-> fail, update |-> got.update,
                 previousUpdate |-> got.previousUpdate, replaced |-> store[q], out |-> r]
    /\ net' = net \ {m}
    /\ UNCHANGED <<chain, call, calls, fn, reader, service, db, ledger, depositor, router>>

\* The handler's result goes to its caller, which releases the channel lock.
Return ==
    /\ ev # NoEvent
    /\ ev' = NoEvent
    /\ UNCHANGED <<store, chain, call, net, replies, calls, fn, reader, service, db, ledger, depositor, router>>

Next ==
    \/ ChainDeposit
    \/ \E p \in Parties, type \in UpdateTypes, fail \in {"none", "load", "chain"} :
           OutboundStart(p, type, fail)
    \/ \E p \in Parties, fail \in {"none", "chain", "save", "saveSync"} :
           OutboundResume(p, "asSent", fail)
    \/ \E p \in Parties, kind \in ReplyFaults : OutboundResume(p, kind, "none")
    \/ \E p \in Parties, lost \in BOOLEAN : Timeout(p, lost)
    \/ \E q \in Parties, m \in net, fail \in Faults : Inbound(q, m, "asSent", fail)
    \/ \E q \in Parties, m \in net, kind \in RequestFaults : Inbound(q, m, kind, "none")
    \/ Return

Spec == Init /\ [][Next]_vars

\* ------------------------------------------ utils.ts getUpdatedChannelBalance
RECURSIVE assetIndex(_, _, _)
\* state.assetIds.findIndex((a) => getAddress(a) === getAddress(assetId)),
\* searched from index i on; 0 when there is none
assetIndex(assetIds, assetId, i) ==
    IF i > Len(assetIds) THEN 0
    ELSE IF getAddress(assetIds[i]) = getAddress(assetId) THEN i
    ELSE assetIndex(assetIds, assetId, i + 1)

\* updateExistingAmount gone wrong: a created transfer is added to the balance
updateExistingAmountAdds(type, existingBalance, transferBalance) ==
    toString(BigNumberFrom(existingBalance) + BigNumberFrom(transferBalance))

\* getUpdatedChannelBalance updateExistingAmount
updateExistingAmount(type, existingBalance, transferBalance) ==
    IF type = "create"
    THEN toString(BigNumberFrom(existingBalance) - BigNumberFrom(transferBalance))
    ELSE toString(BigNumberFrom(existingBalance) + BigNumberFrom(transferBalance))

\* state.balances[assetIdx] || { to: [state.alice, state.bob], amount: ["0", "0"] }
existing(state, assetIdx) ==
    IF assetIdx <= Len(state.balances) THEN state.balances[assetIdx]
    ELSE [to |-> <<state.alice, state.bob>>, amount |-> <<toString(0), toString(0)>>]

\* the amounts of the transfer balance that belong to alice and to bob
aliceTransferAmount(balanceToReconcile, state, initiator) ==
    IF initiator = state.alice THEN balanceToReconcile.amount[1]
    ELSE balanceToReconcile.amount[2]

\* bobTransferAmount gone wrong: nothing of a transfer belongs to bob
bobTransferAmountNone(balanceToReconcile, state, initiator) == toString(0)

bobTransferAmount(balanceToReconcile, state, initiator) ==
    IF initiator = state.bob THEN balanceToReconcile.amount[1]
    ELSE balanceToReconcile.amount[2]

\* utils.ts getUpdatedChannelBalance
getUpdatedChannelBalance(type, assetId, balanceToReconcile, state, initiator) ==
    IF assetIndex(state.assetIds, assetId, 1) = 0
    THEN [threw |-> TRUE, message |-> "Asset id not found in channel"]
    ELSE [threw |-> FALSE,
          to |-> existing(state, assetIndex(state.assetIds, assetId, 1)).to,
          amount |->
              <<updateExistingAmount(type,
                    existing(state, assetIndex(state.assetIds, assetId, 1)).amount[1],
                    aliceTransferAmount(balanceToReconcile, state, initiator)),
                updateExistingAmount(type,
                    existing(state, assetIndex(state.assetIds, assetId, 1)).amount[2],
                    bobTransferAmount(balanceToReconcile, state, initiator))>>]

\* ----------------------------------------------------- calls of the helpers
\* The helper functions of utils.ts and the reads of ethReader.ts, each called
\* once on arguments drawn from small sets.
NoResult == [exists |-> FALSE]

Call(op, args) == [op |-> op, args |-> args, done |-> FALSE, result |-> NoResult]

\* decimal strings of the amounts up to MaxAmount, and one with a leading zero
Numerals == {toString(n) : n \in 0..MaxAmount} \cup {<<0, 1>>}

ReconcileCalls ==
    {Call("reconcileDeposit",
          [initialBalance |-> [to |-> to, amount |-> <<a, b>>],
           processedDepositA |-> pa, processedDepositB |-> pb,
           totalDepositedARes |-> ra, totalDepositedBRes |-> rb]) :
        to \in {<<"alice", "bob">>, <<"bob", "carol">>},
        a \in Numerals, b \in Numerals, pa \in Numerals, pb \in Numerals,
        ra \in {ReadFailed("read of A failed")} \cup {ReadOk(n) : n \in 0..MaxAmount},
        rb \in {ReadFailed("read of B failed")} \cup {ReadOk(n) : n \in 0..MaxAmount}}

\* the chain as the reader finds it: a provider or none, the channel contract
\* deployed or not, the contract's totals and the balance of its address
ChainCalls ==
    {Call(method,
          [rpc |-> [hasProvider |-> hasProvider, deployed |-> deployed,
                    totalA |-> totalA, totalB |-> totalB, balance |-> balance],
           failing |-> failing]) :
        method \in {"getCode", "getOnchainBalance",
                    "getTotalDepositedA", "getTotalDepositedB"},
        hasProvider \in BOOLEAN, deployed \in BOOLEAN,
        totalA \in 0..MaxAmount, totalB \in 0..MaxAmount, balance \in 0..MaxAmount,
        failing \in 0..MaxFailing}

\* what a channel holds of one asset entry
Holdings ==
    {[amount |-> <<toString(1), toString(2)>>, processedA |-> toString(1),
      processedB |-> toString(2), defundNonce |-> toString(1)],
     [amount |-> <<toString(3), toString(4)>>, processedA |-> toString(3),
      processedB |-> toString(4), defundNonce |-> toString(10)],
     [amount |-> <<toString(0), toString(MaxAmount)>>, processedA |-> toString(0),
      processedB |-> toString(MaxAmount), defundNonce |-> toString(9)]}

AssetIds == {[addr |-> addr, form |-> form] : addr \in {"A", "B"}, form \in {"checksum", "lower"}}

AssetEntries == {[asset |-> asset, holding |-> holding] : asset \in AssetIds, holding \in Holdings}

\* the channel whose per-asset arrays hold the given entries
ChannelOf(entries) ==
    [alice |-> "alice", bob |-> "bob",
     assetIds |-> [i \in 1..Len(entries) |-> entries[i].asset],
     processedDepositsA |-> [i \in 1..Len(entries) |-> entries[i].holding.processedA],
     processedDepositsB |-> [i \in 1..Len(entries) |-> entries[i].holding.processedB],
     balances |-> [i \in 1..Len(entries) |->
                      [to |-> <<"alice", "bob">>, amount |-> entries[i].holding.amount]],
     defundNonces |-> [i \in 1..Len(entries) |-> entries[i].holding.defundNonce]]

MergeCalls ==
    {Call("mergeAssetIds", ChannelOf(entries)) :
        entries \in UNION {[1..n -> AssetEntries] : n \in 1..MaxAssets}}

\* the network contexts a channel state may carry
NetworkContexts ==
    {[chainId |-> 1337, channelFactoryAddress |-> "0xfactory"],
     [chainId |-> 1338, channelFactoryAddress |-> "0xother"]}

\* channel states to sign
StatesToSign ==
    {[nonce |-> nonce, bal |-> <<a, b>>, procA |-> a, procB |-> b,
      networkContext |-> networkContext] :
        nonce \in 1..MaxCalls, a \in 0..MaxAmount, b \in 0..MaxAmount,
        networkContext \in NetworkContexts}

\* the signatures at hand for a participant's slot: none, the participant's
\* own over this state, or one nobody of the channel produced
SignaturesOf(party, newState) ==
    {NoSig, BadSig, signMessage(party, hashChannelCommitment(Core(newState)))}

SignCalls ==
    UNION {{Call("generateSignedChannelCommitment",
                 [newState |-> newState, signer |-> signer,
                  aliceSignature |-> aliceSignature, bobSignature |-> bobSignature]) :
                signer \in Parties,
                aliceSignature \in SignaturesOf("alice", newState),
                bobSignature \in SignaturesOf("bob", newState)} :
           newState \in StatesToSign}

\* a channel with one asset and the balance of a transfer to create or resolve
BalanceCalls ==
    {Call("getUpdatedChannelBalance",
          [type |-> type, assetId |-> assetId,
           balanceToReconcile |-> [to |-> <<initiator, Peer(initiator)>>,
                                   amount |-> <<toString(t1), toString(t2)>>],
           state |-> [alice |-> "alice", bob |-> "bob",
                      assetIds |-> <<[addr |-> "A", form |-> "checksum"]>>,
                      balances |-> <<[to |-> <<"alice", "bob">>,
                                      amount |-> <<toString(a), toString(b)>>]>>],
           initiator |-> initiator]) :
        type \in {"create", "resolve"}, assetId \in AssetIds, initiator \in Parties,
        t1 \in 0..MaxAmount, t2 \in 0..MaxAmount,
        a \in 0..MaxAmount, b \in 0..MaxAmount}

InitUtils ==
    /\ store = [p \in Parties |-> NoChannel]
    /\ chain = [totA |-> 0, totB |-> 0]
    /\ call = [p \in Parties |-> Idle]
    /\ net = {}
    /\ replies = [p \in Parties |-> NoReply]
    /\ calls = 0
    /\ ev = NoEvent
    /\ fn \in ReconcileCalls \cup ChainCalls \cup MergeCalls \cup SignCalls \cup BalanceCalls
    /\ reader = NoReader
    /\ service = NoService
    /\ db = NoStore
    /\ ledger = NoLedger
    /\ depositor = NoDepositor
    /\ router = NoRouter

\* the call returns `result`
Returns(result) ==
    /\ ~fn.done
    /\ fn' = [fn EXCEPT !.done = TRUE, !.result = result]
    /\ UNCHANGED <<store, chain, call, net, replies, calls, ev, reader, service, db, ledger, depositor, router>>

ReconcileDeposit ==
    /\ fn.op = "reconcileDeposit"
    /\ Returns(reconcileDepositFromChain(
                   fn.args.initialBalance, fn.args.processedDepositA,
                   fn.args.processedDepositB, fn.args.totalDepositedARes,
                   fn.args.totalDepositedBRes))

GetCode ==
    /\ fn.op = "getCode"
    /\ Returns(getCode(fn.args.rpc, fn.args.failing))

GetOnchainBalance ==
    /\ fn.op = "getOnchainBalance"
    /\ Returns(getOnchainBalance(fn.args.rpc, fn.args.failing))

GetTotalDepositedA ==
    /\ fn.op = "getTotalDepositedA"
    /\ Returns(getTotalDepositedA(fn.args.rpc, fn.args.failing))

GetTotalDepositedB ==
    /\ fn.op = "getTotalDepositedB"
    /\ Returns(getTotalDepositedB(fn.args.rpc, fn.args.failing))

MergeAssetIds ==
    /\ fn.op = "mergeAssetIds"
    /\ Returns(mergeAssetIds(fn.args))

GenerateSignedChannelCommitment ==
    /\ fn.op = "generateSignedChannelCommitment"
    /\ Returns(generateSignedChannelCommitment(
                   fn.args.newState, fn.args.signer,
                   fn.args.aliceSignature, fn.args.bobSignature))

GetUpdatedChannelBalance ==
    /\ fn.op = "getUpdatedChannelBalance"
    /\ Returns(getUpdatedChannelBalance(
                   fn.args.type, fn.args.assetId, fn.args.balanceToReconcile,
                   fn.args.state, fn.args.initiator))

NextUtils ==
    \/ GenerateSignedChannelCommitment
    \/ GetUpdatedChannelBalance
    \/ ReconcileDeposit
    \/ GetCode
    \/ GetOnchainBalance
    \/ GetTotalDepositedA
    \/ GetTotalDepositedB
    \/ MergeAssetIds

SpecUtils == InitUtils /\ [][NextUtils]_vars

\* ------------------------------------------- ethReader.ts transfer registry
\* The lookups of one EthereumChainReader run as concurrent tasks; a task
\* gives way to the others while it waits for the registry contract.
ChainIds == {1337, 1338}

Tasks == {"t1", "t2"}

HashlockTransfer == [name |-> "HashlockTransfer", definition |-> "0xHashlock"]

Withdraw == [name |-> "Withdraw", definition |-> "0xWithdraw"]

\* the lists a registry contract can hold
RegistryLists == {<<HashlockTransfer>>, <<HashlockTransfer, Withdraw>>}

\* the list the bytecode handed to a lookup yields when run locally
EvmList == <<HashlockTransfer>>

\* transferRegistries: the entry of a chain id that was loaded, and the lack
\* of one
Cached(registry) == [has |-> TRUE, registry |-> registry]

NoList == [has |-> FALSE]

Resting == [pc |-> "idle"]

LookupMethods ==
    {"getRegisteredTransferByDefinition", "getRegisteredTransferByName", "getRegisteredTransfers"}

\* the keys a lookup of the given method can ask for
LookupKeys(method) ==
    CASE method = "getRegisteredTransferByDefinition" -> {"0xHashlock", "0xWithdraw"}
      [] method = "getRegisteredTransferByName" -> {"HashlockTransfer", "Withdraw"}
      [] method = "getRegisteredTransfers" -> {"all"}

\* registry.find((r) => r.definition === definition) and its like by name
Found(method, key, registry) ==
    {i \in 1..Len(registry) :
        IF method = "getRegisteredTransferByDefinition"
        THEN registry[i].definition = key
        ELSE registry[i].name = key}

\* what the wrapped function of a lookup returns once it has the list
Answer(method, key, registry) ==
    IF method = "getRegisteredTransfers" THEN [isError |-> FALSE, value |-> registry]
    ELSE IF Found(method, key, registry) = {}
    THEN [isError |-> TRUE, error |-> "TransferNotRegistered"]
    ELSE [isError |-> FALSE,
          value |-> registry[CHOOSE i \in Found(method, key, registry) :
                                 \A j \in Found(method, key, registry) : i <= j]]

\* retryWrapper around a wrapped function that fails the same way on every
\* call: after the last try its error is replaced
Wrapped(res) ==
    IF res.isError THEN [isError |-> TRUE, error |-> "Could not execute rpc method"]
    ELSE res

\* the searches of the list a lookup makes from its try `outer` on: one when
\* the wrapped function returns Result.ok, one in every try left to retryWrapper
\* when it returns Result.fail
Finds(res, outer) ==
    IF res.isError THEN ETH_READER_MAX_RETRIES - outer + 1 ELSE 1

\* the task returns: the list it was served from, what loading came to, the result
Served(task, registry, load, res) ==
    [task EXCEPT !.pc = "returned", !.served = Cached(registry), !.load = load,
                 !.result = res, !.outer = 0, !.inner = 0]

\* the lookup's wrapped function has the list: find, and on TransferNotRegistered
\* the remaining tries of retryWrapper find the same in the cached list
lookupAnswer(rd, t, registry, load) ==
    [rd EXCEPT !.tasks[t] =
        [Served(rd.tasks[t], registry, load,
                Wrapped(Answer(rd.tasks[t].method, rd.tasks[t].key, registry)))
            EXCEPT !.finds = Finds(Answer(rd.tasks[t].method, rd.tasks[t].key, registry),
                                   rd.tasks[t].outer)]]

\* loadRegistry has the list: transferRegistries.set and Result.ok
loadRegistrySet(rd, t, registered) ==
    lookupAnswer([rd EXCEPT !.transferRegistries[rd.tasks[t].chainId] = Cached(registered)],
                 t, registered, "loaded")

\* loadRegistry asks the registry contract: registry.getTransferDefinitions()
loadRegistryRead(rd, t, inner) ==
    [rd EXCEPT !.tasks[t].pc = "reading",
               !.tasks[t].inner = inner,
               !.tasks[t].reads = rd.tasks[t].reads + 1]

\* loadRegistry, one call of its wrapped function: the list comes from
\* running the bytecode (`evm`: bytecode was handed in and runs), or else the
\* contract is asked
loadRegistry(rd, t, evm) ==
    IF evm THEN loadRegistrySet(rd, t, EvmList)
    ELSE loadRegistryRead(rd, t, 1)

\* a lookup, one call of its wrapped function: the cached list or a load
lookupTry(rd, t, evm) ==
    IF rd.transferRegistries[rd.tasks[t].chainId].has
    THEN lookupAnswer(rd, t, rd.transferRegistries[rd.tasks[t].chainId].registry,
                      rd.tasks[t].load)
    ELSE loadRegistry(rd, t, evm)

\* loadRegistry failed for good: the lookup's retryWrapper tries again or gives up
lookupRetry(rd, t) ==
    IF rd.tasks[t].outer < ETH_READER_MAX_RETRIES
    THEN lookupTry([rd EXCEPT !.tasks[t].outer = rd.tasks[t].outer + 1,
                              !.tasks[t].load = "failed"], t, FALSE)
    ELSE [rd EXCEPT !.tasks[t].pc = "returned",
                    !.tasks[t].load = "failed",
                    !.tasks[t].outer = 0,
                    !.tasks[t].inner = 0,
                    !.tasks[t].result =
                        [isError |-> TRUE, error |-> "Could not execute rpc method"]]

\* getTransferDefinitions threw: loadRegistry's retryWrapper asks again or fails
loadRegistryFailed(rd, t) ==
    IF rd.tasks[t].inner < ETH_READER_MAX_RETRIES
    THEN loadRegistryRead(rd, t, rd.tasks[t].inner + 1)
    ELSE lookupRetry(rd, t)

NewTask(method, chainId, key, cached) ==
    [pc |-> "started", method |-> method, chainId |-> chainId, key |-> key,
     outer |-> 1, inner |-> 0, reads |-> 0, finds |-> 0,
     cached |-> cached, served |-> NoList, load |-> "none",
     result |-> [isError |-> FALSE, value |-> <<>>]]

InitReader ==
    /\ store = [p \in Parties |-> NoChannel]
    /\ chain = [totA |-> 0, totB |-> 0]
    /\ call = [p \in Parties |-> Idle]
    /\ net = {}
    /\ replies = [p \in Parties |-> NoReply]
    /\ calls = 0
    /\ ev = NoEvent
    /\ fn = NoCall
    /\ service = NoService
    /\ db = NoStore
    /\ ledger = NoLedger
    /\ depositor = NoDepositor
    /\ router = NoRouter
    /\ reader = [transferRegistries |-> [c \in ChainIds |-> NoList],
                 contract |-> [c \in ChainIds |-> <<HashlockTransfer>>],
                 tasks |-> [t \in Tasks |-> Resting],
                 lookups |-> 0, changes |-> 0, failures |-> 0]

ReaderStep(rd) ==
    /\ reader' = rd
    /\ UNCHANGED <<store, chain, call, net, replies, calls, ev, fn, service, db, ledger, depositor, router>>

\* a caller starts a lookup; it runs up to its answer or to its first wait
LookupStarts(t) ==
    /\ reader.tasks[t].pc = "idle"
    /\ reader.lookups < MaxLookups
    /\ \E method \in LookupMethods, chainId \in ChainIds, evm \in BOOLEAN :
         \E key \in LookupKeys(method) :
            ReaderStep(lookupTry(
                [reader EXCEPT !.lookups = reader.lookups + 1,
                               !.tasks[t] = NewTask(method, chainId, key,
                                                    reader.transferRegistries[chainId])],
                t, evm))

\* the registry contract answers a waiting task with its list
ReadSucceeds(t) ==
    /\ reader.tasks[t].pc = "reading"
    /\ ReaderStep(loadRegistrySet(reader, t, reader.contract[reader.tasks[t].chainId]))

\* the call of the registry contract throws
ReadFails(t) ==
    /\ reader.tasks[t].pc = "reading"
    /\ reader.failures < MaxReadFailures
    /\ ReaderStep(loadRegistryFailed([reader EXCEPT !.failures = reader.failures + 1], t))

\* the caller has its result
LookupReturns(t) ==
    /\ reader.tasks[t].pc = "returned"
    /\ ReaderStep([reader EXCEPT !.tasks[t] = Resting])

\* the owner of a registry contract registers or removes a transfer
RegistryChanges(c) ==
    /\ reader.changes < MaxRegistryChanges
    /\ \E registry \in RegistryLists \ {reader.contract[c]} :
          ReaderStep([reader EXCEPT !.contract[c] = registry,
                                    !.changes = reader.changes + 1])

NextReader ==
    \/ \E t \in Tasks : LookupStarts(t)
    \/ \E t \in Tasks : ReadSucceeds(t)
    \/ \E t \in Tasks : ReadFails(t)
    \/ \E t \in Tasks : LookupReturns(t)
    \/ \E c \in ChainIds : RegistryChanges(c)

SpecReader == InitReader /\ [][NextReader]_vars

\* ----------------------------------------- ethService.ts transaction queue
\* new PriorityQueue({ concurrency: 1 })
concurrency == 1

\* the constructor's default of defaultRetries
defaultRetries == 1

TransactionReasons == {"disputeChannel", "deploy", "depositA", "withdraw", "approveTokens"}

\* A call of sendTxWithRetries: where it stands, its loop variable, the
\* attempts it has begun, and its result.
NewSend(reason) ==
    [pc |-> "called", reason |-> reason, attempt |-> 1, attempts |-> 0,
     result |-> "none"]

\* the functions of the line that were added before that of call c
RECURSIVE Ahead(_, _)
Ahead(line, c) ==
    IF line = <<>> \/ Head(line) = c THEN 0 ELSE 1 + Ahead(Tail(line), c)

\* the line without the function of call c
Without(line, c) == SelectSeq(line, LAMBDA x : x # c)

\* the queue admits a function whatever is running
queueHasRoomAlways(sv) == TRUE

\* p-queue: a function may start while fewer than `concurrency` are running
queueHasRoom(sv) == sv.pending < concurrency

\* p-queue: the function of call c starts; `overtaken` records how many
\* functions added before it are still waiting
queueStart(sv, c) ==
    [sv EXCEPT !.pending = sv.pending + 1,
               !.overtaken = Ahead(sv.line, c),
               !.line = Without(sv.line, c),
               !.send[c].pc = "txFn"]

\* queue.add: the function starts at once when there is room and nothing
\* waits, else it waits behind the functions added before it
queueAdd(sv, c) ==
    IF queueHasRoom(sv) /\ sv.queue = <<>>
    THEN queueStart([sv EXCEPT !.line = Append(sv.line, c)], c)
    ELSE [sv EXCEPT !.line = Append(sv.line, c),
                    !.queue = Append(sv.queue, c),
                    !.send[c].pc = "queued"]

\* p-queue: a function has settled, the one waiting longest starts
queueNext(sv) ==
    IF sv.queue # <<>> /\ sv.pending - 1 < concurrency
    THEN queueStart([sv EXCEPT !.pending = sv.pending - 1, !.queue = Tail(sv.queue)],
                    Head(sv.queue))
    ELSE [sv EXCEPT !.pending = sv.pending - 1]

\* sendTxWithRetries returns `result`; its loop variable is gone
sendTxReturns(sv, c, result) ==
    [sv EXCEPT !.send[c].pc = "returned", !.send[c].result = result,
               !.send[c].attempt = 0]

\* sendTxWithRetries, the head of its loop: `attempt++` is the loop's test
\* (it holds unless attempt is 0) and `attempt < this.defaultRetries` is what
\* runs after each round, to no effect
sendTxLoop(sv, c) ==
    IF sv.send[c].attempt # 0
    THEN queueAdd([sv EXCEPT !.send[c].attempt = sv.send[c].attempt + 1,
                             !.send[c].attempts = sv.send[c].attempts + 1], c)
    ELSE sendTxReturns(sv, c, "FailedToSendTx")

\* sendTxWithRetries after a failed attempt: an error that cannot be retried
\* is returned, else the call waits before the next round
sendTxFailed(sv, c, canRetry) ==
    IF ~canRetry THEN sendTxReturns(sv, c, "error")
    ELSE [sv EXCEPT !.send[c].pc = "delay"]

\* A transaction that was submitted: the call it came from, its state on
\* chain, and what the service saved and emitted for it, in order.
NewTransaction(c) ==
    [call |-> c, status |-> "pending",
     log |-> <<"saveTransactionResponse", "TRANSACTION_SUBMITTED">>]

\* the callbacks run while the promise stays unsettled
settledStaysPending(sv, h, status, saved, event) ==
    [sv EXCEPT !.txs[h].log = sv.txs[h].log \o <<saved, event>>]

\* the callbacks registered on response.wait: what is saved, what is emitted
settled(sv, h, status, saved, event) ==
    [sv EXCEPT !.txs[h].status = status,
               !.txs[h].log = sv.txs[h].log \o <<saved, event>>]

InitService ==
    /\ store = [p \in Parties |-> NoChannel]
    /\ chain = [totA |-> 0, totB |-> 0]
    /\ call = [p \in Parties |-> Idle]
    /\ net = {}
    /\ replies = [p \in Parties |-> NoReply]
    /\ calls = 0
    /\ ev = NoEvent
    /\ fn = NoCall
    /\ reader = NoReader
    /\ db = NoStore
    /\ ledger = NoLedger
    /\ depositor = NoDepositor
    /\ router = NoRouter
    /\ service = [send |-> <<>>, queue |-> <<>>, pending |-> 0,
                  line |-> <<>>, overtaken |-> 0, txs |-> <<>>]

ServiceStep(sv) ==
    /\ service' = sv
    /\ UNCHANGED <<store, chain, call, net, replies, calls, ev, fn, reader, db, ledger, depositor, router>>

\* one of the send functions calls sendTxWithRetries
SendTxWithRetries ==
    /\ Len(service.send) < MaxSends
    /\ \E reason \in TransactionReasons :
          ServiceStep(sendTxLoop([service EXCEPT !.send = Append(service.send, NewSend(reason))],
                                 Len(service.send) + 1))

\* txFn returns undefined: no transaction was attempted
TxNotAttempted(c) ==
    /\ service.send[c].pc = "txFn"
    /\ ServiceStep(sendTxReturns(queueNext(service), c, "undefined"))

\* txFn throws: nothing is saved
TxFails(c) ==
    /\ service.send[c].pc = "txFn"
    /\ \E canRetry \in BOOLEAN :
          ServiceStep(sendTxFailed(queueNext(service), c, canRetry))

\* txFn returns the response of a submitted transaction
TxSubmitted(c) ==
    /\ service.send[c].pc = "txFn"
    /\ ServiceStep(sendTxReturns(
           queueNext([service EXCEPT !.txs = Append(service.txs, NewTransaction(c))]),
           c, "response"))

\* delay(1000) is over: the next round of the loop
DelayOver(c) ==
    /\ service.send[c].pc = "delay"
    /\ service.send[c].attempts < MaxAttempts
    /\ ServiceStep(sendTxLoop(service, c))

\* response.wait resolves with a receipt of status 1
TxMined(h) ==
    /\ service.txs[h].status = "pending"
    /\ ServiceStep(settled(service, h, "mined", "saveTransactionReceipt", "TRANSACTION_MINED"))

\* response.wait resolves with a receipt of status 0
TxReverted(h) ==
    /\ service.txs[h].status = "pending"
    /\ ServiceStep(settled(service, h, "reverted", "saveTransactionFailure", "TRANSACTION_FAILED"))

\* response.wait rejects
TxWaitFails(h) ==
    /\ service.txs[h].status = "pending"
    /\ ServiceStep(settled(service, h, "failed", "saveTransactionFailure", "TRANSACTION_FAILED"))

NextService ==
    \/ SendTxWithRetries
    \/ \E c \in 1..Len(service.send) : TxNotAttempted(c)
    \/ \E c \in 1..Len(service.send) : TxFails(c)
    \/ \E c \in 1..Len(service.send) : TxSubmitted(c)
    \/ \E c \in 1..Len(service.send) : DelayOver(c)
    \/ \E h \in 1..Len(service.txs) : TxMined(h)
    \/ \E h \in 1..Len(service.txs) : TxReverted(h)
    \/ \E h \in 1..Len(service.txs) : TxWaitFails(h)

SpecService == InitService /\ [][NextService]_vars

\* ------------------------------------------------------------- engine store
\* The store the engine requires: channel states by channel address,
\* transfers by transfer id, and the active transfers of every channel.
ChannelAddresses == {"0xaaa", "0xbbb"}

TransferIds == {"0x123", "0x456", "0x789"}

\* a transfer id is derived from the channel the transfer was created in
ChannelOfTransfer(id) == IF id = "0x789" THEN "0xbbb" ELSE "0xaaa"

TransfersIn(channelAddress) == {id \in TransferIds : ChannelOfTransfer(id) = channelAddress}

NoChannelState == [nonce |-> 0]

NoTransfer == [transferId |-> "undefined"]

ChannelState(channelAddress, nonce, type, transferId, transferResolver) ==
    [channelAddress |-> channelAddress, nonce |-> nonce,
     latestUpdate |-> [type |-> type, transferId |-> transferId,
                       transferResolver |-> transferResolver]]

Transfer(transferId, transferResolver) ==
    [transferId |-> transferId, channelAddress |-> ChannelOfTransfer(transferId),
     transferResolver |-> transferResolver]

\* the channel states that carry an update of the given type
ChannelStates(channelAddress, type) ==
    IF type \in {"create", "resolve"}
    THEN {ChannelState(channelAddress, nonce, type, id,
                       IF type = "resolve" THEN "0xpreimage" ELSE "undefined") :
              nonce \in 1..MaxNonce, id \in TransfersIn(channelAddress)}
    ELSE {ChannelState(channelAddress, nonce, type, "undefined", "undefined") :
              nonce \in 1..MaxNonce}

getChannelState(d, channelAddress) == d.channels[channelAddress]

getTransferState(d, transferId) == d.transfers[transferId]

getActiveTransfers(d, channelAddress) == {d.transfers[id] : id \in d.active[channelAddress]}

\* getTransfers with a filter on the transfer id
getTransfers(d, transferId) ==
    {d.transfers[id] : id \in {i \in TransferIds : i = transferId /\ d.transfers[i] # NoTransfer}}

\* the save that leaves a resolved transfer among the active ones
saveChannelStateKeepsActive(d, channel, transfer) ==
    CASE channel.latestUpdate.type \in {"create", "resolve"} ->
             [d EXCEPT !.channels[channel.channelAddress] = channel,
                       !.transfers[transfer.transferId] =
                           [transfer EXCEPT !.transferResolver =
                                                channel.latestUpdate.transferResolver],
                       !.active[channel.channelAddress] = @ \cup {transfer.transferId}]
      [] OTHER -> [d EXCEPT !.channels[channel.channelAddress] = channel]

\* saveChannelState(channel, transfer?): the channel replaces the stored one;
\* a created transfer is stored and becomes active, a resolved one is stored
\* with its resolver and stops being active
saveChannelState(d, channel, transfer) ==
    CASE channel.latestUpdate.type = "create" ->
             [d EXCEPT !.channels[channel.channelAddress] = channel,
                       !.transfers[transfer.transferId] = transfer,
                       !.active[channel.channelAddress] = @ \cup {transfer.transferId}]
      [] channel.latestUpdate.type = "resolve" ->
             [d EXCEPT !.channels[channel.channelAddress] = channel,
                       !.transfers[transfer.transferId] =
                           [transfer EXCEPT !.transferResolver =
                                                channel.latestUpdate.transferResolver],
                       !.active[channel.channelAddress] = @ \ {transfer.transferId}]
      [] OTHER -> [d EXCEPT !.channels[channel.channelAddress] = channel]

\* the given transfers written into the stored ones
WithTransfers(stored, transfers) ==
    [id \in TransferIds |->
        IF \E t \in transfers : t.transferId = id
        THEN CHOOSE t \in transfers : t.transferId = id
        ELSE stored[id]]

\* the save that adds the given transfers to the active ones
saveChannelStateAndTransfersAdds(d, channel, transfers) ==
    [d EXCEPT !.channels[channel.channelAddress] = channel,
              !.transfers = WithTransfers(d.transfers, transfers),
              !.active[channel.channelAddress] = @ \cup {t.transferId : t \in transfers}]

\* saveChannelStateAndTransfers(channel, transfers): the channel replaces the
\* stored one and the given transfers replace the channel's active set
saveChannelStateAndTransfers(d, channel, transfers) ==
    [d EXCEPT !.channels[channel.channelAddress] = channel,
              !.transfers = WithTransfers(d.transfers, transfers),
              !.active[channel.channelAddress] = {t.transferId : t \in transfers}]

InitStore ==
    /\ store = [p \in Parties |-> NoChannel]
    /\ chain = [totA |-> 0, totB |-> 0]
    /\ call = [p \in Parties |-> Idle]
    /\ net = {}
    /\ replies = [p \in Parties |-> NoReply]
    /\ calls = 0
    /\ ev = NoEvent
    /\ fn = NoCall
    /\ reader = NoReader
    /\ service = NoService
    /\ ledger = NoLedger
    /\ depositor = NoDepositor
    /\ router = NoRouter
    /\ db = [channels |-> [a \in ChannelAddresses |-> NoChannelState],
             transfers |-> [id \in TransferIds |-> NoTransfer],
             active |-> [a \in ChannelAddresses |-> {}],
             last |-> [op |-> "clear"]]

StoreStep(d, last) == [d EXCEPT !.last = last]

Engine == <<store, chain, call, net, replies, calls, ev, fn, reader, service, ledger, depositor, router>>

\* a channel state is saved after a deposit
SaveChannelState ==
    \E a \in ChannelAddresses, type \in {"deposit"} :
        \E channel \in ChannelStates(a, type) :
            /\ db' = StoreStep(saveChannelState(db, channel, NoTransfer),
                      [op |-> "saveChannelState", channel |-> channel,
                       transfer |-> NoTransfer, wasActive |-> FALSE])
            /\ UNCHANGED Engine

\* a channel state is saved with the transfer its update created
SaveCreatedTransfer ==
    \E a \in ChannelAddresses :
        \E channel \in ChannelStates(a, "create") :
            /\ db.transfers[channel.latestUpdate.transferId] = NoTransfer
            /\ db' = StoreStep(saveChannelState(db, channel,
                             Transfer(channel.latestUpdate.transferId, "undefined")),
                         [op |-> "saveChannelState", channel |-> channel,
                          transfer |-> Transfer(channel.latestUpdate.transferId, "undefined"),
                          wasActive |-> FALSE])
            /\ UNCHANGED Engine

\* a channel state is saved with the transfer its update resolved
SaveResolvedTransfer ==
    \E a \in ChannelAddresses :
        \E channel \in ChannelStates(a, "resolve") :
            /\ db.transfers[channel.latestUpdate.transferId] # NoTransfer
            /\ db' = StoreStep(saveChannelState(db, channel,
                             db.transfers[channel.latestUpdate.transferId]),
                         [op |-> "saveChannelState", channel |-> channel,
                          transfer |-> db.transfers[channel.latestUpdate.transferId],
                          wasActive |-> channel.latestUpdate.transferId \in db.active[a]])
            /\ UNCHANGED Engine

\* a channel is restored: its state and all its active transfers are saved
SaveChannelStateAndTransfers ==
    \E a \in ChannelAddresses, type \in {"deposit", "create", "resolve"} :
        \E channel \in ChannelStates(a, type), ids \in SUBSET TransfersIn(a) :
            /\ db' = StoreStep(saveChannelStateAndTransfers(db, channel,
                          {Transfer(id, "undefined") : id \in ids}),
                      [op |-> "saveChannelStateAndTransfers", channel |-> channel,
                       transfers |-> {Transfer(id, "undefined") : id \in ids},
                       before |-> <<db.channels[a].nonce, db.active[a]>>])
            /\ UNCHANGED Engine

NextStore ==
    \/ SaveChannelState
    \/ SaveCreatedTransfer
    \/ SaveResolvedTransfer
    \/ SaveChannelStateAndTransfers

SpecStore == InitStore /\ [][NextStore]_vars

\* ------------------------------------------ a channel's deposits and transfers
\* One channel with one asset is followed from its setup: participants
\* deposit on chain, a deposit update reconciles the deposits, transfers are
\* created and resolved.
Asset == [addr |-> "A", form |-> "checksum"]

DepositAmounts == {10}

\* the channel right after setup, the asset known and nothing deposited
FreshChannel ==
    [alice |-> "alice", bob |-> "bob", assetIds |-> <<Asset>>,
     balances |-> <<[to |-> <<"alice", "bob">>, amount |-> <<toString(0), toString(0)>>]>>,
     processedDepositsA |-> <<toString(0)>>, processedDepositsB |-> <<toString(0)>>]

\* the channel state with the balance of its asset replaced
WithBalance(state, balance) ==
    [state EXCEPT !.balances[1] = [to |-> balance.to, amount |-> balance.amount]]

\* the deposit update applied: the reconciled balance and processed totals
WithDeposit(state, rec) ==
    [state EXCEPT !.balances[1] = rec.balance,
                  !.processedDepositsA[1] = rec.totalDepositsAlice,
                  !.processedDepositsB[1] = rec.totalDepositsBob]

\* the balance a transfer is created with: all of it on the initiator's side
InitialBalance(initiator, amount) ==
    [to |-> <<initiator, Peer(initiator)>>, amount |-> <<toString(amount), toString(0)>>]

\* the balance a transfer resolves to: all paid to the responder, or all
\* returned to the initiator
ResolvedBalance(transfer, paid) ==
    [to |-> transfer.balance.to,
     amount |-> IF paid THEN <<toString(0), transfer.balance.amount[1]>>
                ELSE transfer.balance.amount]

\* the funds of a participant in the channel
Funds(state, p) == BigNumberFrom(state.balances[1].amount[IF p = state.alice THEN 1 ELSE 2])

\* how far the run has followed: alice deposits 10, the deposit is reconciled,
\* alice creates a transfer of 3 to bob, bob resolves it with all paid to bob
Follows(path, step) ==
    CASE path = "fresh" /\ step = <<"deposit", "alice", 10>> -> "onchain"
      [] path = "onchain" /\ step = <<"reconcile">> -> "deposited"
      [] path = "deposited" /\ step = <<"create", "alice", 3>> -> "created"
      [] path = "created" /\ step = <<"resolve", TRUE>> -> "resolved"
      [] OTHER -> "other"

InitLedger ==
    /\ store = [p \in Parties |-> NoChannel]
    /\ chain = [totA |-> 0, totB |-> 0]
    /\ call = [p \in Parties |-> Idle]
    /\ net = {}
    /\ replies = [p \in Parties |-> NoReply]
    /\ calls = 0
    /\ ev = NoEvent
    /\ fn = NoCall
    /\ reader = NoReader
    /\ service = NoService
    /\ db = NoStore
    /\ depositor = NoDepositor
    /\ router = NoRouter
    /\ ledger = [state |-> FreshChannel,
                 totalDepositsAlice |-> 0, totalDepositsBob |-> 0,
                 depositsAlice |-> 0, depositsBob |-> 0,
                 activeTransfers |-> {}, path |-> "fresh"]

LedgerStep(l, step) ==
    /\ ledger' = [l EXCEPT !.path = Follows(ledger.path, step)]
    /\ UNCHANGED <<store, chain, call, net, replies, calls, ev, fn, reader, service, db,
                   depositor, router>>

\* alice sends funds to the channel contract
AliceDeposits ==
    \E amount \in DepositAmounts :
        /\ ledger.depositsAlice < MaxChainDeposits
        /\ LedgerStep([ledger EXCEPT !.totalDepositsAlice = @ + amount,
                                     !.depositsAlice = @ + 1],
                      <<"deposit", "alice", amount>>)

\* bob sends funds to the channel contract
BobDeposits ==
    \E amount \in DepositAmounts :
        /\ ledger.depositsBob < MaxChainDeposits
        /\ LedgerStep([ledger EXCEPT !.totalDepositsBob = @ + amount,
                                     !.depositsBob = @ + 1],
                      <<"deposit", "bob", amount>>)

\* a deposit update: the on-chain totals are read and reconciled
DepositReconciled ==
    /\ \/ toString(ledger.totalDepositsAlice) # ledger.state.processedDepositsA[1]
       \/ toString(ledger.totalDepositsBob) # ledger.state.processedDepositsB[1]
    /\ LedgerStep([ledger EXCEPT !.state =
                       WithDeposit(ledger.state,
                           reconcileDepositFromChain(
                               ledger.state.balances[1],
                               ledger.state.processedDepositsA[1],
                               ledger.state.processedDepositsB[1],
                               ReadOk(ledger.totalDepositsAlice),
                               ReadOk(ledger.totalDepositsBob)))],
                  <<"reconcile">>)

\* a create update: the transfer's balance leaves the initiator's funds
TransferCreated ==
    \E initiator \in Parties, amount \in 1..MaxTransferAmount, transferId \in TransferIds,
       form \in {"checksum", "lower"} :
        /\ Cardinality(ledger.activeTransfers) < MaxActive
        /\ \A t \in ledger.activeTransfers : t.transferId # transferId
        /\ amount <= Funds(ledger.state, initiator)
        /\ LedgerStep([ledger EXCEPT
                           !.state = WithBalance(ledger.state,
                               getUpdatedChannelBalance("create",
                                   [addr |-> Asset.addr, form |-> form],
                                   InitialBalance(initiator, amount),
                                   ledger.state, initiator)),
                           !.activeTransfers = @ \cup
                               {[transferId |-> transferId, initiator |-> initiator,
                                 balance |-> InitialBalance(initiator, amount)]}],
                      <<"create", initiator, amount>>)

\* a resolve update: the resolved balance of the transfer enters the funds
TransferResolved ==
    \E transfer \in ledger.activeTransfers, paid \in BOOLEAN :
        LedgerStep([ledger EXCEPT
                        !.state = WithBalance(ledger.state,
                            getUpdatedChannelBalance("resolve", Asset,
                                ResolvedBalance(transfer, paid),
                                ledger.state, transfer.initiator)),
                        !.activeTransfers = @ \ {transfer}],
                   <<"resolve", paid>>)

NextLedger ==
    \/ AliceDeposits
    \/ BobDeposits
    \/ DepositReconciled
    \/ TransferCreated
    \/ TransferResolved

SpecLedger == InitLedger /\ [][NextLedger]_vars

\* ------------------------------------------------- ethService.ts sendDepositTx
\* Deposits of ether sent through one chain service: each call of
\* sendDepositTx reads the code at the channel address, takes the deploy or
\* the deposit route and hands a function to the transaction queue; the
\* channel contract may get deployed in between, by one of the calls or by
\* somebody else.
DepositCalls == 1..MaxDepositCalls

Levels == {"outer", "inner"}

\* a call of sendDepositTx that has not been made yet
NoDeposit ==
    [pc |-> "idle", sender |-> "nobody", code |-> "none", reason |-> "none",
     inner |-> "none", result |-> "none"]

\* getCode at the channel address
multisigCode(deployed) == IF deployed THEN "0xcode" ELSE "0x"

\* sendDepositTx gone wrong: alice deposits without looking at the code
sendDepositTxDirect(code, sender) == "depositing"

\* sendDepositTx: alice needs to deploy the multisig when there is no code
sendDepositTx(code, sender) ==
    IF code = "0x" /\ sender = "alice" THEN "deploying" ELSE "depositing"

\* queue.add in sendTxAndParseResponse: the function waits in line
queueAddFn(dp, c, level) == [dp EXCEPT !.queue = Append(dp.queue, <<c, level>>)]

\* sendDeployChannelTx with a deposit: fails when the multisig is deployed,
\* else queues the deploy with deposit
sendDeployChannelTx(dp, c) ==
    IF multisigCode(dp.deployed) # "0x"
    THEN [dp EXCEPT !.call[c].pc = "returned", !.call[c].result = "MultisigDeployed"]
    ELSE queueAddFn([dp EXCEPT !.call[c].pc = "queued",
                               !.call[c].reason = "deployWithDepositAlice"], c, "outer")

\* the end of sendDepositTx on a deployed channel: sendDepositATx for alice,
\* sendDepositBTx for bob
sendDepositABTx(dp, c) ==
    queueAddFn([dp EXCEPT !.call[c].pc = "queued",
                          !.call[c].reason = IF dp.call[c].sender = "alice"
                                             THEN "depositA" ELSE "depositB"], c, "outer")

\* what the queued function does: the contract method it submits, or the
\* call of sendDepositATx when the deploy finds the multisig deployed
txFn(reason, code) ==
    CASE reason = "depositA" -> "depositAlice"
      [] reason = "depositB" -> "sendTransaction"
      [] reason = "deployWithDepositAlice" ->
             IF code # "0x" THEN "sendDepositATx" ELSE "createChannelAndDepositAlice"

\* the reason of the function queued by call c at the given level
ReasonOf(dp, c, level) == IF level = "inner" THEN "depositA" ELSE dp.call[c].reason

\* where a queued function of call c stands
StageOf(dp, c, level) == IF level = "inner" THEN dp.call[c].inner ELSE dp.call[c].pc

AtStage(dp, c, level, stage) ==
    IF level = "inner" THEN [dp EXCEPT !.call[c].inner = stage]
    ELSE [dp EXCEPT !.call[c].pc = stage]

\* the queued function runs: it submits a transaction, or it calls
\* sendDepositATx and waits for what that call queues
runTxFn(dp, c, level, method) ==
    IF method = "sendDepositATx"
    THEN queueAddFn([dp EXCEPT !.call[c].pc = "nested", !.call[c].inner = "queued"],
                    c, "inner")
    ELSE [AtStage(dp, c, level, "responded") EXCEPT
              !.submitted = @ \cup {[call |-> c, method |-> method,
                                     code |-> multisigCode(dp.deployed)]}]

\* the queued function is done and leaves the queue; the function that
\* waited for it has its response
queueDone(dp, c, level) ==
    IF level = "inner"
    THEN [dp EXCEPT !.pending = @ - 1, !.call[c].inner = "done",
                    !.call[c].pc = "responded"]
    ELSE [dp EXCEPT !.pending = @ - 1, !.call[c].pc = "sent"]

\* the calls that submitted createChannelAndDepositAlice
Deploys(dp, c) ==
    \E s \in dp.submitted : s.call = c /\ s.method = "createChannelAndDepositAlice"

InitDeposit ==
    /\ store = [p \in Parties |-> NoChannel]
    /\ chain = [totA |-> 0, totB |-> 0]
    /\ call = [p \in Parties |-> Idle]
    /\ net = {}
    /\ replies = [p \in Parties |-> NoReply]
    /\ calls = 0
    /\ ev = NoEvent
    /\ fn = NoCall
    /\ reader = NoReader
    /\ service = NoService
    /\ db = NoStore
    /\ ledger = NoLedger
    /\ depositor = [deployed |-> FALSE,
                    call |-> [c \in DepositCalls |-> NoDeposit],
                    queue |-> <<>>, pending |-> 0, submitted |-> {}]
    /\ router = NoRouter

Others == <<store, chain, call, net, replies, calls, ev, fn, reader, service, db, ledger,
           router>>

\* a participant calls sendDepositTx: the code at the channel address is read
SendDepositTx(c) ==
    /\ depositor.call[c].pc = "idle"
    /\ \A b \in DepositCalls : b < c => depositor.call[b].pc # "idle"
    /\ \E sender \in Parties :
          depositor' = [depositor EXCEPT
              !.call[c].sender = sender,
              !.call[c].code = multisigCode(depositor.deployed),
              !.call[c].pc = sendDepositTx(multisigCode(depositor.deployed), sender)]
    /\ UNCHANGED Others

\* the call goes on in sendDeployChannelTx
SendDeployChannelTx(c) ==
    /\ depositor.call[c].pc = "deploying"
    /\ depositor' = sendDeployChannelTx(depositor, c)
    /\ UNCHANGED Others

\* the call goes on in sendDepositATx or sendDepositBTx
SendDepositABTx(c) ==
    /\ depositor.call[c].pc = "depositing"
    /\ depositor' = sendDepositABTx(depositor, c)
    /\ UNCHANGED Others

\* the queue starts the function that is first in line
QueueStarts(c, level) ==
    /\ depositor.queue # <<>>
    /\ Head(depositor.queue) = <<c, level>>
    /\ depositor.pending < concurrency
    /\ depositor' = [AtStage(depositor, c, level, "txFn") EXCEPT
                         !.queue = Tail(depositor.queue), !.pending = @ + 1]
    /\ UNCHANGED Others

\* the function runs
TxFnRuns(c, level) ==
    /\ StageOf(depositor, c, level) = "txFn"
    /\ depositor' = runTxFn(depositor, c, level,
                            txFn(ReasonOf(depositor, c, level),
                                 multisigCode(depositor.deployed)))
    /\ UNCHANGED Others

\* the function has its response and the queue goes on
QueueFinishes(c, level) ==
    /\ StageOf(depositor, c, level) = "responded"
    /\ depositor' = queueDone(depositor, c, level)
    /\ UNCHANGED Others

\* the transaction of the call is mined; a deploy puts the code in place
DepositMined(c) ==
    /\ depositor.call[c].pc = "sent"
    /\ depositor' = [depositor EXCEPT
                         !.call[c].pc = "returned", !.call[c].result = "ok",
                         !.deployed = @ \/ Deploys(depositor, c)]
    /\ UNCHANGED Others

\* somebody else deploys the channel contract through the factory
DeployedByOther ==
    /\ ~depositor.deployed
    /\ depositor' = [depositor EXCEPT !.deployed = TRUE]
    /\ UNCHANGED Others

NextDeposit ==
    \/ \E c \in DepositCalls : SendDepositTx(c)
    \/ \E c \in DepositCalls : SendDeployChannelTx(c)
    \/ \E c \in DepositCalls : SendDepositABTx(c)
    \/ \E c \in DepositCalls, level \in Levels : QueueStarts(c, level)
    \/ \E c \in DepositCalls, level \in Levels : TxFnRuns(c, level)
    \/ \E c \in DepositCalls, level \in Levels : QueueFinishes(c, level)
    \/ \E c \in DepositCalls : DepositMined(c)
    \/ DeployedByOther

SpecDeposit == InitDeposit /\ [][NextDeposit]_vars

\* the event loop runs every function that can run
SpecDepositFair ==
    /\ InitDeposit
    /\ [][NextDeposit]_vars
    /\ \A c \in DepositCalls, level \in Levels :
          /\ WF_vars(QueueStarts(c, level))
          /\ WF_vars(TxFnRuns(c, level))
          /\ WF_vars(QueueFinishes(c, level))
    /\ \A c \in DepositCalls : WF_vars(SendDeployChannelTx(c)) /\ WF_vars(SendDepositABTx(c))

\* ----------------------------------- router: autoRebalance.ts, the rebalances
\* config.allowedSwaps, in the order autoRebalanceTask goes through them
allowedSwaps == <<"swap1", "swap2">>

\* store.getLatestRebalance(swap) has nothing to return
NoRebalance ==
    [status |-> "none", approveHash |-> "undefined", executeHash |-> "undefined",
     completeHash |-> "undefined"]

\* no status response was read
NoResponse == [read |-> FALSE, completed |-> FALSE, transaction |-> FALSE]

NoRun == [swap |-> 0, result |-> "none", response |-> NoResponse]

IdleTask == [pc |-> "idle", swap |-> 0, latest |-> NoRebalance, response |-> NoResponse]

\* rebalanceIfNeeded: `let latest = await store.getLatestRebalance(swap)` and
\* the dummy value with the status COMPLETE that stands in for a missing one
getLatestRebalance(stored) ==
    IF stored.status = "none" THEN [stored EXCEPT !.status = "COMPLETE"] ELSE stored

\* rebalanceIfNeeded, where its chain of `if (latest.status === ...)` leads
StepFor(latest) ==
    CASE latest.status = "COMPLETE" -> "approve"
      [] latest.status = "APPROVED" -> "execute"
      [] latest.status = "EXECUTED" -> "status"

\* completeRebalance on a status response: what it returns unless it throws,
\* `send` standing for the transaction it sends before it returns
completeRebalance(completed, transaction) ==
    IF ~completed THEN [complete |-> FALSE, send |-> FALSE]
    ELSE IF ~transaction THEN [complete |-> FALSE, send |-> FALSE]
    ELSE [complete |-> TRUE, send |-> TRUE]

\* rebalanceIfNeeded returns: autoRebalanceTask returns on an error and goes
\* on with the next swap otherwise
RunReturns(rt, result) ==
    [rt EXCEPT !.returned = [swap |-> rt.task.swap, result |-> result,
                             response |-> rt.task.response],
               !.task = IF result = "fail" \/ rt.task.swap = Len(allowedSwaps)
                        THEN IdleTask
                        ELSE [IdleTask EXCEPT !.pc = "balances", !.swap = rt.task.swap + 1]]

\* `latest = {...latest, ...}; await store.saveRebalance(latest)`
saveRebalance(rt, latest, pc) ==
    [rt EXCEPT !.rebalances[rt.task.swap] = latest,
               !.task.latest = latest,
               !.task.pc = pc]

InitRouter ==
    /\ store = [p \in Parties |-> NoChannel]
    /\ chain = [totA |-> 0, totB |-> 0]
    /\ call = [p \in Parties |-> Idle]
    /\ net = {}
    /\ replies = [p \in Parties |-> NoReply]
    /\ calls = 0
    /\ ev = NoEvent
    /\ fn = NoCall
    /\ reader = NoReader
    /\ service = NoService
    /\ db = NoStore
    /\ ledger = NoLedger
    /\ depositor = NoDepositor
    /\ router = [rebalances |-> [i \in 1..Len(allowedSwaps) |-> NoRebalance],
                 task |-> IdleTask, returned |-> NoRun, tasks |-> 0]

NotRouter == <<store, chain, call, net, replies, calls, ev, fn, reader, service, db, ledger,
          depositor>>

\* the interval fires: autoRebalanceTask starts with the first swap
AutoRebalanceTask ==
    /\ router.task.pc = "idle"
    /\ router.tasks < MaxTasks
    /\ router' = [router EXCEPT !.tasks = router.tasks + 1,
                                !.task = [IdleTask EXCEPT !.pc = "balances", !.swap = 1]]
    /\ UNCHANGED NotRouter

\* rebalanceIfNeeded up to its status chain: the balances cannot be read, or
\* are within the threshold, or call for a rebalance
RebalanceIfNeeded ==
    /\ router.task.pc = "balances"
    /\ \E balances \in {"error", "within", "over"} :
          router' =
              CASE balances = "error" -> RunReturns(router, "fail")
                [] balances = "within" -> RunReturns(router, "ok")
                [] balances = "over" ->
                     [router EXCEPT
                        !.task.latest = getLatestRebalance(router.rebalances[router.task.swap]),
                        !.task.pc = StepFor(getLatestRebalance(
                                                router.rebalances[router.task.swap]))]
    /\ UNCHANGED NotRouter

\* approveRebalance: it fails, or no approval is needed, or its transaction
\* is mined
ApproveRebalance ==
    /\ router.task.pc = "approve"
    /\ \E approval \in {"error", "undefined", "0xapprove"} :
          router' =
              IF approval = "error" THEN RunReturns(router, "fail")
              ELSE saveRebalance(router,
                                 [router.task.latest EXCEPT !.status = "APPROVED",
                                                            !.approveHash = approval],
                                 "execute")
    /\ UNCHANGED NotRouter

\* executeRebalance: it fails or its transaction is mined
ExecuteRebalance ==
    /\ router.task.pc = "execute"
    /\ \E executed \in {"error", "0xexecute"} :
          router' =
              IF executed = "error" THEN RunReturns(router, "fail")
              ELSE saveRebalance(router,
                                 [router.task.latest EXCEPT !.status = "EXECUTED",
                                                            !.executeHash = executed],
                                 "status")
    /\ UNCHANGED NotRouter

\* completeRebalance up to its transaction: the status request throws, or is
\* answered
CompleteRebalance ==
    /\ router.task.pc = "status"
    /\ \E threw, completed, transaction \in BOOLEAN :
          router' =
              IF router.task.latest.executeHash = "undefined" \/ threw
              THEN RunReturns(router, "fail")
              ELSE IF completeRebalance(completed, transaction).send
              THEN [router EXCEPT !.task.pc = "completing",
                                  !.task.response = [read |-> TRUE, completed |-> completed,
                                                     transaction |-> transaction]]
              ELSE RunReturns([router EXCEPT
                               !.task.response = [read |-> TRUE, completed |-> completed,
                                                  transaction |-> transaction]], "ok")
    /\ UNCHANGED NotRouter

\* sendTransaction of completeRebalance: it throws, or the transaction is mined
\* and rebalanceIfNeeded saves the rebalance as COMPLETE
CompletionSent ==
    /\ router.task.pc = "completing"
    /\ \E threw \in BOOLEAN :
          router' =
              IF threw THEN RunReturns(router, "fail")
              ELSE RunReturns(saveRebalance(router,
                                         [router.task.latest EXCEPT
                                             !.status = "COMPLETE",
                                             !.completeHash = "0xcomplete"],
                                         "completing"), "ok")
    /\ UNCHANGED NotRouter

NextRouter ==
    \/ AutoRebalanceTask
    \/ RebalanceIfNeeded
    \/ ApproveRebalance
    \/ ExecuteRebalance
    \/ CompleteRebalance
    \/ CompletionSent

SpecRouter == InitRouter /\ [][NextRouter]_vars

\* ------------------------------------------------------------------ claims
\* inbound ran in the latest step and could load the channel from the store
InboundRan == ev.op = "inbound" /\ ev.fail # "load"

\* how far the received update is ahead of the stored state
Diff == ev.update.nonce - Nonce(ev.replaced)

\* inbound answered the request with an acknowledgement
Acked == ~ev.out.threw /\ ~ev.out.reply.isError

\* the latest handler run left the store of its party as it found it
NothingSaved == ev.out.saved = <<>> /\ store[ev.party] = ev.replaced

\* both participants signed the commitment of `state` on its latest update
DoubleSigned(state) ==
    /\ SigA(state.latestUpdate) = signMessage("alice", hashChannelCommitment(state))
    /\ SigB(state.latestUpdate) = signMessage("bob", hashChannelCommitment(state))

\* outbound resumed with the first answer to its message, a StaleUpdate error
\* whose update is one ahead of the state the call started from
SyncAttempt ==
    /\ ev.op = "outbound"
    /\ ev.attempt = 1
    /\ ev.answer.isError
    /\ ev.answer.message = "StaleUpdate"
    /\ ev.answer.update # NoUpdate
    /\ ev.answer.update.nonce - ev.loaded = 1

\* an update other than setup that lacks one of the two signatures
SingleSigned(update) ==
    /\ update # NoUpdate
    /\ update.type # "setup"
    /\ (update.aliceSignature = NoSig \/ update.bobSignature = NoSig)

\* the two updates propose the same thing, whatever signatures they carry
SameUpdate(u, v) ==
    /\ u.nonce = v.nonce /\ u.type = v.type /\ u.from = v.from
    /\ u.bal = v.bal /\ u.totA = v.totA /\ u.totB = v.totB

\* C1: every channel state a handler writes to the store has a nonce exactly
\* one above the stored state it replaces; a handler that writes twice (sync,
\* then apply) writes k+1 and then k+2, and the store ends on the last write.
C1_NonceStepsByOne ==
    ev.op \in {"inbound", "outbound"} =>
        /\ \A i \in 1..Len(ev.out.saved) : ev.out.saved[i].nonce = Nonce(ev.replaced) + i
        /\ store[ev.party] = AfterSaves(ev.replaced, ev.out.saved)

C1_Witness == ev.op = "inbound" /\ Len(ev.out.saved) = 2

\* C2: every state written to the store, and so every state in the store,
\* carries on its latest update the signatures of both participants, each
\* valid for the commitment hash of that state.
C2_SavedStatesDoubleSigned ==
    /\ ev.op \in {"inbound", "outbound"} =>
           \A i \in 1..Len(ev.out.saved) : DoubleSigned(ev.out.saved[i])
    /\ \A p \in Parties : store[p] # NoChannel => DoubleSigned(store[p])

C2_Witness == ev.op = "outbound" /\ ev.out.done /\ Len(ev.out.saved) = 1

\* C3: an inbound update whose nonce is at most the locally stored nonce
\* (0 when no channel is stored) is answered with a StaleUpdate error that
\* carries the local latest update, and nothing is written.
C3_StaleUpdateAnswered ==
    InboundRan /\ Diff <= 0 =>
        /\ ev.out.reply = ErrorReply("StaleUpdate", LatestUpdate(ev.replaced))
        /\ NothingSaved

\* C4: an inbound update three or more nonces ahead of the stored state is
\* answered with RestoreNeeded; neither it nor the previous update that came
\* with it is applied.
C4_RestoreNeeded ==
    InboundRan /\ Diff >= 3 =>
        /\ ev.out.reply = ErrorReply("RestoreNeeded", ev.update)
        /\ NothingSaved

C4_Witness ==
    InboundRan /\ Diff >= 3 /\ ev.replaced # NoChannel /\ ev.previousUpdate # NoUpdate

\* C5: an inbound update two nonces ahead is acknowledged only if a
\* double-signed previous update came with it, and then the synced state k+1
\* is saved first and the state k+2 of the update after it; without a previous
\* update the request is rejected and nothing is saved.
C5_SyncThenApply ==
    InboundRan /\ Diff = 2 =>
        /\ ev.previousUpdate = NoUpdate =>
               ~ev.out.threw /\ ev.out.reply.isError /\ NothingSaved
        /\ Acked =>
               /\ ev.previousUpdate # NoUpdate
               /\ ev.previousUpdate.aliceSignature # NoSig
               /\ ev.previousUpdate.bobSignature # NoSig
               /\ Len(ev.out.saved) = 2
               /\ ev.out.saved[1].nonce = Nonce(ev.replaced) + 1
               /\ ev.out.saved[1].latestUpdate = ev.previousUpdate
               /\ ev.out.saved[2].nonce = Nonce(ev.replaced) + 2
               /\ store[ev.party] = ev.out.saved[2]

C5_Witness == InboundRan /\ Diff = 2 /\ Acked

\* C6: a setup update is never applied through the sync path: inbound given a
\* setup as the previous update to sync, and outbound given a setup in the
\* StaleUpdate answer, fail with CannotSyncSetup and leave the store alone.
C6_SetupNeverSynced ==
    /\ InboundRan /\ Diff = 2 /\ ev.previousUpdate # NoUpdate
           /\ ev.previousUpdate.type = "setup" =>
               /\ ev.out.reply = ErrorReply("CannotSyncSetup", ev.previousUpdate)
               /\ NothingSaved
    /\ SyncAttempt /\ ev.answer.update.type = "setup" =>
           /\ ev.out.done /\ ev.out.isError
           /\ ev.out.message = "CannotSyncSetup"
           /\ NothingSaved

C6_Witness ==
    /\ InboundRan /\ Diff = 2 /\ ev.previousUpdate # NoUpdate
    /\ ev.previousUpdate.type = "setup"
    /\ ev.previousUpdate.aliceSignature # NoSig /\ ev.previousUpdate.bobSignature # NoSig

C8_SecondDeliveryStale ==
    /\ InboundRan /\ Acked =>
           /\ SameUpdate(store[ev.party].latestUpdate, ev.update)
           /\ store[ev.party].nonce = ev.update.nonce
    /\ InboundRan /\ ev.replaced # NoChannel
           /\ SameUpdate(ev.update, ev.replaced.latestUpdate) =>
               /\ ev.out.reply = ErrorReply("StaleUpdate", ev.replaced.latestUpdate)
               /\ NothingSaved

C8_Witness ==
    /\ InboundRan /\ ev.replaced # NoChannel
    /\ SameUpdate(ev.update, ev.replaced.latestUpdate)
    /\ ev.update # ev.replaced.latestUpdate

\* C9: one call of outbound sends at most two protocol messages; the second
\* is sent only when the first was answered with StaleUpdate and the sync and
\* the regeneration went through; an error answer to the second message ends
\* the call with an error, without another sync, save or send.
C9_AtMostTwoSends ==
    /\ \A p \in Parties : call[p].pc = "await" => call[p].sends \in {1, 2}
    /\ ev.op = "outbound" =>
           /\ ev.out.sends <= 2
           /\ ev.attempt >= 1 /\ ev.sent # {} =>
                  /\ ev.attempt = 1
                  /\ ev.answer.isError /\ ev.answer.message = "StaleUpdate"
                  /\ Len(ev.out.saved) = 1
                  /\ ev.out.saved[1].latestUpdate = ev.answer.update
                  /\ \A m \in ev.sent : m.update.nonce = ev.out.saved[1].nonce + 1
           /\ ev.attempt = 2 =>
                  /\ ev.out.done /\ ev.sent = {}
                  /\ ev.answer.isError => ev.out.isError /\ NothingSaved

C9_Witness ==
    /\ ev.op = "outbound" /\ ev.attempt = 2
    /\ ev.answer.isError /\ ev.answer.message = "StaleUpdate"

\* C10: an initiator at nonce k whose peer is at k+1 and answers StaleUpdate
\* with its latest update sends a second request, with nonce k+2; once that
\* one is acknowledged the call has sent exactly two requests and both stores
\* hold the same state at nonce k+2.
C10_BehindByOneConverges ==
    /\ SyncAttempt /\ ev.asSent /\ ev.fail = "none"
           /\ ev.answer.update.type # "setup"
           /\ Nonce(store[Peer(ev.party)]) = ev.loaded + 1
           /\ ev.answer.update = LatestUpdate(store[Peer(ev.party)]) =>
               /\ ev.sent # {}
               /\ \A m \in ev.sent : m.update.nonce = ev.loaded + 2
    /\ ev.op = "outbound" /\ ev.attempt = 2 /\ ev.asSent /\ ~ev.out.isError =>
           /\ ev.out.sends = 2
           /\ store[ev.party] = store[Peer(ev.party)]
           /\ store[ev.party].nonce = ev.loaded + 2
           /\ store[ev.party].latestUpdate.nonce = ev.loaded + 2

C10_Witness == ev.op = "outbound" /\ ev.attempt = 2 /\ ev.asSent /\ ~ev.out.isError

\* outbound resumed with the first answer to its message, a StaleUpdate error
\* whose update is two or more ahead of the state the call loaded
FarBehind ==
    /\ ev.op = "outbound"
    /\ ev.attempt = 1
    /\ ev.answer.isError
    /\ ev.answer.message = "StaleUpdate"
    /\ ev.answer.update # NoUpdate
    /\ ev.answer.update.nonce - ev.loaded >= 2

\* C11: when the StaleUpdate answer carries an update two or more nonces ahead
\* of the stored state (nonce 0 when no channel is stored), outbound fails
\* with RestoreNeeded, saves nothing and sends nothing more.
C11_RestoreNeededOnOutbound ==
    FarBehind =>
        /\ ev.out.done /\ ev.out.isError
        /\ ev.out.message = "RestoreNeeded"
        /\ NothingSaved
        /\ ev.sent = {}

\* outbound ran up to the validation of the proposed parameters, which failed
ParamsRejected ==
    /\ ev.op = "outbound"
    /\ ev.attempt = 0
    /\ ev.fail # "load"
    /\ validateUpdateParams(ev.type, ev.replaced, ev.party, ev.fail # "chain") # "ok"

\* C12: when the validation of the proposed parameters fails, outbound
\* returns the validation error, sends no protocol message and writes nothing.
C12_InvalidParamsNotSent ==
    ParamsRejected =>
        /\ ev.out.done /\ ev.out.isError
        /\ ev.out.message =
               validateUpdateParams(ev.type, ev.replaced, ev.party, ev.fail # "chain")
        /\ ev.out.sends = 0
        /\ ev.sent = {}
        /\ call[ev.party] = Idle
        /\ NothingSaved

C12_Witness == ParamsRejected /\ ev.replaced # NoChannel

\* C13: whenever inbound or outbound ends with an error, the store holds the
\* channel state it held before the call, also when a sync step came first.
C13_ErrorLeavesStore ==
    /\ ev.op = "inbound" /\ (ev.out.threw \/ ev.out.reply.isError) => NothingSaved
    /\ ev.op = "outbound" /\ ev.out.done /\ ev.out.isError =>
           NothingSaved /\ Nonce(store[ev.party]) = ev.loaded

\* outbound got an answer that is no error and whose update lacks a valid
\* signature of alice or of bob on the commitment of the derived next state
AnswerBadlySigned ==
    /\ ev.op = "outbound"
    /\ ev.attempt >= 1
    /\ ~ev.answer.isError
    /\ \/ ev.answer.update.aliceSignature
              # signMessage("alice", hashChannelCommitment(ev.derived))
       \/ ev.answer.update.bobSignature
              # signMessage("bob", hashChannelCommitment(ev.derived))

\* C14: when the update the counterparty returned does not carry valid
\* signatures of both participants on the commitment of the locally derived
\* next state, outbound fails with BadSignatures and does not save that state.
C14_BadSignatures ==
    AnswerBadlySigned =>
        /\ ev.out.done /\ ev.out.isError
        /\ ev.out.message = "BadSignatures"
        /\ NothingSaved

C14_Witness == AnswerBadlySigned /\ ev.replaced # NoChannel

SecondDeposit ==
    /\ ev.op = "outbound"
    /\ ev.type = "deposit"
    /\ ev.attempt = 1
    /\ ev.replaced # NoChannel
    /\ ev.replaced.latestUpdate.type = "deposit"
    /\ ev.replaced.latestUpdate.from = ev.party

Returned(op) == fn.op = op /\ fn.done

\* C17: reconcileDeposit returns a balance in which alice's amount grew by
\* exactly the on-chain total of alice less processedDepositA and bob's by the
\* on-chain total of bob less processedDepositB, returns the two on-chain
\* totals as the new processed totals and leaves `to` as it was; when a chain
\* read fails it returns that read's error and no balance.
C17_ReconcileDeposit ==
    Returned("reconcileDeposit") =>
        IF fn.args.totalDepositedARes.isError
        THEN fn.result = ReadFailed(fn.args.totalDepositedARes.error)
        ELSE IF fn.args.totalDepositedBRes.isError
        THEN fn.result = ReadFailed(fn.args.totalDepositedBRes.error)
        ELSE /\ ~fn.result.isError
             /\ BigNumberFrom(fn.result.balance.amount[1])
                    - BigNumberFrom(fn.args.initialBalance.amount[1])
                = fn.args.totalDepositedARes.value - BigNumberFrom(fn.args.processedDepositA)
             /\ BigNumberFrom(fn.result.balance.amount[2])
                    - BigNumberFrom(fn.args.initialBalance.amount[2])
                = fn.args.totalDepositedBRes.value - BigNumberFrom(fn.args.processedDepositB)
             /\ fn.result.totalDepositsAlice = toString(fn.args.totalDepositedARes.value)
             /\ fn.result.totalDepositsBob = toString(fn.args.totalDepositedBRes.value)
             /\ fn.result.balance.to = fn.args.initialBalance.to

\* both reads succeed, both parties hold something, both have a processed
\* total and both have deposited since
C17_Witness ==
    /\ Returned("reconcileDeposit")
    /\ ~fn.result.isError
    /\ BigNumberFrom(fn.args.initialBalance.amount[1]) > 0
    /\ BigNumberFrom(fn.args.initialBalance.amount[2]) > 0
    /\ BigNumberFrom(fn.args.processedDepositA) > 0
    /\ BigNumberFrom(fn.args.processedDepositB) > 0
    /\ fn.args.totalDepositedARes.value > BigNumberFrom(fn.args.processedDepositA)
    /\ fn.args.totalDepositedBRes.value > BigNumberFrom(fn.args.processedDepositB)

\* C18: while the channel contract is not deployed getTotalDepositedA returns
\* 0 and getTotalDepositedB returns the on-chain balance of the channel
\* address; once it is deployed both return the contract's own totals.  A
\* reader with a provider whose reads work does return a value.
C18_TotalsBeforeAndAfterDeploy ==
    /\ Returned("getTotalDepositedA") /\ ~fn.result.isError =>
           fn.result.value = (IF fn.args.rpc.deployed THEN fn.args.rpc.totalA ELSE 0)
    /\ Returned("getTotalDepositedB") /\ ~fn.result.isError =>
           fn.result.value = (IF fn.args.rpc.deployed THEN fn.args.rpc.totalB
                              ELSE fn.args.rpc.balance)
    /\ (Returned("getTotalDepositedA") \/ Returned("getTotalDepositedB"))
           /\ fn.args.rpc.hasProvider /\ fn.args.failing = 0 =>
           ~fn.result.isError

\* bob's total is read before deployment, after some reads failed, and the
\* balance of the address differs from what the contract would say
C18_Witness ==
    /\ Returned("getTotalDepositedB")
    /\ ~fn.args.rpc.deployed
    /\ fn.args.failing > 0
    /\ fn.args.rpc.balance > 0
    /\ fn.args.rpc.balance # fn.args.rpc.totalB
    /\ ~fn.result.isError
    /\ fn.result.value = fn.args.rpc.balance

\* the indices of the channel's entries for the asset at address addr
EntriesFor(channel, addr) ==
    {i \in 1..Len(channel.assetIds) : channel.assetIds[i].addr = addr}

\* the assigned indices of the merged assetIds that hold address addr
MergedFor(addr) ==
    {i \in 1..Len(fn.result.assetIds) :
        fn.result.assetIds[i].set /\ fn.result.assetIds[i].v.addr = addr}

RECURSIVE SumWhere(_, _, _)
\* the sum of numbers[j] over the indices j >= i that lie in `where`
SumWhere(numbers, where, i) ==
    IF i > Len(numbers) THEN 0
    ELSE (IF i \in where THEN BigNumberFrom(numbers[i]) ELSE 0)
             + SumWhere(numbers, where, i + 1)

\* the channel's balance amounts of one party, as an array
AmountsOf(channel, party) == [i \in 1..Len(channel.balances) |-> channel.balances[i].amount[party]]

\* index i of the merged arrays holds the sums over the given entries
HoldsSums(i, channel, where) ==
    /\ fn.result.balances[i].set
    /\ fn.result.balances[i].v.amount
           = <<toString(SumWhere(AmountsOf(channel, 1), where, 1)),
               toString(SumWhere(AmountsOf(channel, 2), where, 1))>>
    /\ fn.result.processedDepositsA[i]
           = Slot(toString(SumWhere(channel.processedDepositsA, where, 1)))
    /\ fn.result.processedDepositsB[i]
           = Slot(toString(SumWhere(channel.processedDepositsB, where, 1)))

\* C19: when the channel's assetIds hold entries equal up to letter case,
\* mergeAssetIds returns a single entry for that asset, in checksummed form,
\* whose balance amounts and processed-deposit totals of A and of B are the
\* component-wise sums over all the duplicate entries.
C19_DuplicatesMerged ==
    Returned("mergeAssetIds") =>
        \A addr \in {"A", "B"} :
            Cardinality(EntriesFor(fn.args, addr)) >= 2 =>
                \E i \in 1..Len(fn.result.assetIds) :
                    /\ MergedFor(addr) = {i}
                    /\ fn.result.assetIds[i].v.form = "checksum"
                    /\ HoldsSums(i, fn.args, EntriesFor(fn.args, addr))

\* the checksummed and the lower-case form of one asset, with balances [1,2]
\* and [3,4], are read back as one asset with balance [4,6]
C19_Witness ==
    /\ Returned("mergeAssetIds")
    /\ fn.args.assetIds = <<[addr |-> "A", form |-> "checksum"], [addr |-> "A", form |-> "lower"]>>
    /\ fn.args.balances[1].amount = <<toString(1), toString(2)>>
    /\ fn.args.balances[2].amount = <<toString(3), toString(4)>>
    /\ Len(fn.result.assetIds) = 1
    /\ fn.result.assetIds[1] = Slot([addr |-> "A", form |-> "checksum"])
    /\ fn.result.balances[1].v.amount = <<toString(4), toString(6)>>

\* C20: the channel returned by mergeAssetIds has balances, assetIds,
\* processedDepositsA, processedDepositsB and defundNonces of one common
\* length, and no two of its assetIds are equal under case-insensitive
\* comparison.  (Every channel handed in has five arrays of one length.)
C20_ArraysAlignedNoDuplicates ==
    Returned("mergeAssetIds") =>
        /\ Len(fn.result.balances) = Len(fn.result.assetIds)
        /\ Len(fn.result.processedDepositsA) = Len(fn.result.assetIds)
        /\ Len(fn.result.processedDepositsB) = Len(fn.result.assetIds)
        /\ Len(fn.result.defundNonces) = Len(fn.result.assetIds)
        /\ \A i, j \in 1..Len(fn.result.assetIds) :
               /\ i # j
               /\ fn.result.assetIds[i].set
               /\ fn.result.assetIds[j].set
               => toLowerCase(fn.result.assetIds[i].v) # toLowerCase(fn.result.assetIds[j].v)

\* three entries of which the last repeats the first in another letter case
C20_Witness ==
    /\ Returned("mergeAssetIds")
    /\ Len(fn.args.assetIds) = 3
    /\ fn.args.assetIds[1] # fn.args.assetIds[3]
    /\ toLowerCase(fn.args.assetIds[1]) = toLowerCase(fn.args.assetIds[3])
    /\ toLowerCase(fn.args.assetIds[2]) # toLowerCase(fn.args.assetIds[1])
    /\ Len(fn.result.assetIds) = 2
    /\ Len(fn.result.balances) = 2

RECURSIVE MaxWhere(_, _, _)
\* the largest of the numbers[j] over the indices j >= i that lie in `where`
MaxWhere(numbers, where, i) ==
    IF i > Len(numbers) THEN 0
    ELSE IF i \in where /\ BigNumberFrom(numbers[i]) > MaxWhere(numbers, where, i + 1)
    THEN BigNumberFrom(numbers[i])
    ELSE MaxWhere(numbers, where, i + 1)

\* C21: mergeAssetIds sets the defund nonce of a merged asset to the numeric
\* maximum of the defund nonces of that asset's duplicate entries, whatever
\* other assets the channel holds and however many digits the nonces have.
C21_DefundNonceIsMax ==
    Returned("mergeAssetIds") =>
        \A addr \in {"A", "B"} :
            Cardinality(EntriesFor(fn.args, addr)) >= 2 =>
                \A i \in MergedFor(addr) :
                    fn.result.defundNonces[i]
                        = Slot(toString(MaxWhere(fn.args.defundNonces,
                                                 EntriesFor(fn.args, addr), 1)))

\* a read that goes to the provider once per call has returned
SimpleRead == Returned("getCode") \/ Returned("getOnchainBalance")

\* how often the provider was read during the call
Reads == fn.args.failing - fn.result.failing

\* C22: retryWrapper calls the wrapped read at most ETH_READER_MAX_RETRIES
\* times, the first call included, stops at the first call that succeeds and
\* returns its value, and after that many failures in a row returns a
\* ChainError; without a provider it fails with ProviderNotFound and does not
\* call the read.
C22_BoundedRetry ==
    SimpleRead =>
        /\ Reads <= ETH_READER_MAX_RETRIES
        /\ ~fn.args.rpc.hasProvider =>
               /\ fn.result.isError
               /\ fn.result.error = "ProviderNotFound"
               /\ Reads = 0
        /\ fn.args.rpc.hasProvider /\ fn.args.failing < ETH_READER_MAX_RETRIES =>
               /\ ~fn.result.isError
               /\ fn.result.value = (IF fn.op = "getCode" THEN CodeAt(fn.args.rpc)
                                     ELSE fn.args.rpc.balance)
               /\ Reads = fn.args.failing + 1
        /\ fn.args.rpc.hasProvider /\ fn.args.failing >= ETH_READER_MAX_RETRIES =>
               /\ fn.result.isError
               /\ fn.result.error = "Could not execute rpc method"
               /\ Reads = ETH_READER_MAX_RETRIES

\* the last of the allowed calls succeeds
C22_Witness ==
    /\ Returned("getOnchainBalance")
    /\ fn.args.rpc.hasProvider
    /\ fn.args.failing = ETH_READER_MAX_RETRIES - 1
    /\ Reads = ETH_READER_MAX_RETRIES
    /\ ~fn.result.isError

\* the cached list of chain id c is neither changed nor removed by the step
CacheKept(c) ==
    reader.transferRegistries[c].has =>
        reader'.transferRegistries[c] = reader.transferRegistries[c]

\* a lookup that found the list cached when it started was answered from that
\* list and did not ask the registry contract
AnsweredFromCache(t) ==
    reader.tasks[t].pc = "returned" /\ reader.tasks[t].cached.has =>
        /\ reader.tasks[t].reads = 0
        /\ reader.tasks[t].served = reader.tasks[t].cached
        /\ reader.tasks[t].result
               = Wrapped(Answer(reader.tasks[t].method, reader.tasks[t].key,
                                reader.tasks[t].cached.registry))

\* the step in which a load of task t fails for good leaves the cache as it
\* was, and the lookup, if tries are left to it, loads again
FailedLoadCachesNothing(t) ==
    /\ reader.tasks[t].pc = "reading"
    /\ reader'.tasks[t].load = "failed"
    /\ reader'.tasks[t].outer # reader.tasks[t].outer
    => /\ reader'.transferRegistries = reader.transferRegistries
       /\ ~reader.transferRegistries[reader.tasks[t].chainId].has
              /\ reader.tasks[t].outer < ETH_READER_MAX_RETRIES
              => /\ reader'.tasks[t].pc = "reading"
                 /\ reader'.tasks[t].reads = reader.tasks[t].reads + 1

\* C23: once the transfer registry of a chain id has been loaded, every later
\* lookup for that chain id is answered from the cached list without reading
\* the registry contract again, and the cached list is never changed or
\* removed afterwards; a failed load leaves the cache empty, so that the next
\* lookup loads again.
C23_RegistryLoadedOnce ==
    [][ /\ \A c \in ChainIds : CacheKept(c)
        /\ \A t \in Tasks : AnsweredFromCache(t)
        /\ \A t \in Tasks : FailedLoadCachesNothing(t) ]_vars

\* the calls whose txFn is executing
Executing == {c \in 1..Len(service.send) : service.send[c].pc = "txFn"}

C25_AtMostDefaultRetries ==
    \A c \in 1..Len(service.send) : service.send[c].attempts <= defaultRetries

\* what the service saves and emits for a transaction, in order
Submitted == <<"saveTransactionResponse", "TRANSACTION_SUBMITTED">>

Mined == <<"saveTransactionReceipt", "TRANSACTION_MINED">>

Failed == <<"saveTransactionFailure", "TRANSACTION_FAILED">>

C27_ActiveUntilResolved ==
    db.last.op = "saveChannelState" =>
        /\ db.last.channel.latestUpdate.type = "create" =>
               \A a \in ChannelAddresses :
                   db.last.transfer \in getActiveTransfers(db, a)
                       <=> a = db.last.channel.channelAddress
        /\ (db.last.channel.latestUpdate.type = "resolve" /\ db.last.wasActive) =>
               /\ \A a \in ChannelAddresses :
                      \A t \in getActiveTransfers(db, a) :
                          t.transferId # db.last.transfer.transferId
               /\ getTransferState(db, db.last.transfer.transferId).transferId
                      = db.last.transfer.transferId
               /\ getTransferState(db, db.last.transfer.transferId).transferResolver
                      = db.last.channel.latestUpdate.transferResolver
               /\ getTransferState(db, db.last.transfer.transferId).transferResolver
                      # "undefined"
               /\ getTransfers(db, db.last.transfer.transferId)
                      = {getTransferState(db, db.last.transfer.transferId)}

\* an active transfer has just been resolved while another one stays active
C27_Witness ==
    /\ db.last.op = "saveChannelState"
    /\ db.last.channel.latestUpdate.type = "resolve"
    /\ db.last.wasActive
    /\ db.active[db.last.channel.channelAddress] # {}

\* C28: after saveChannelStateAndTransfers(channel, transfers) the stored
\* channel is exactly the given one, whatever the nonce stored before, and
\* the active transfers of the channel are exactly the given ones.
C28_RestoreReplaces ==
    db.last.op = "saveChannelStateAndTransfers" =>
        /\ getChannelState(db, db.last.channel.channelAddress) = db.last.channel
        /\ getActiveTransfers(db, db.last.channel.channelAddress) = db.last.transfers

\* a restore with a lower nonce that dropped a transfer that was active
C28_Witness ==
    /\ db.last.op = "saveChannelStateAndTransfers"
    /\ db.last.channel.nonce < db.last.before[1]
    /\ \E id \in db.last.before[2] : \A t \in db.last.transfers : t.transferId # id
    /\ db.last.transfers # {}

\* the signatures after `first` signed the state and then the counterparty
SignedInOrder(newState, first) ==
    generateSignedChannelCommitment(newState, Peer(first),
        generateSignedChannelCommitment(newState, first, NoSig, NoSig).aliceSignature,
        generateSignedChannelCommitment(newState, first, NoSig, NoSig).bobSignature)

\* C29: what a participant signs does not depend on the networkContext of the
\* state; the pair of signatures is the same whether alice or bob signed
\* first; the signer's signature goes into the signer's own slot and the
\* counterparty's signature is left untouched (a pair that is already
\* complete is returned as it is).
C29_SignedCommitment ==
    (fn.op = "generateSignedChannelCommitment" /\ fn.done) =>
        /\ \A networkContext \in NetworkContexts :
               generateSignedChannelCommitment(
                   [fn.args.newState EXCEPT !.networkContext = networkContext],
                   fn.args.signer, fn.args.aliceSignature, fn.args.bobSignature)
                   = fn.result
        /\ SignedInOrder(fn.args.newState, "alice") = SignedInOrder(fn.args.newState, "bob")
        /\ SignedInOrder(fn.args.newState, "alice")
               = [aliceSignature |->
                      signMessage("alice", hashChannelCommitment(Core(fn.args.newState))),
                  bobSignature |->
                      signMessage("bob", hashChannelCommitment(Core(fn.args.newState)))]
        /\ IF fn.args.aliceSignature # NoSig /\ fn.args.bobSignature # NoSig
           THEN fn.result = [aliceSignature |-> fn.args.aliceSignature,
                             bobSignature |-> fn.args.bobSignature]
           ELSE IF fn.args.signer = "alice"
           THEN /\ fn.result.aliceSignature
                       = signMessage("alice", hashChannelCommitment(Core(fn.args.newState)))
                /\ fn.result.bobSignature = fn.args.bobSignature
           ELSE /\ fn.result.bobSignature
                       = signMessage("bob", hashChannelCommitment(Core(fn.args.newState)))
                /\ fn.result.aliceSignature = fn.args.aliceSignature

\* bob signed a state that alice had signed before
C29_Witness ==
    /\ fn.op = "generateSignedChannelCommitment"
    /\ fn.done
    /\ fn.args.signer = "bob"
    /\ fn.args.bobSignature = NoSig
    /\ fn.args.aliceSignature
           = signMessage("alice", hashChannelCommitment(Core(fn.args.newState)))
    /\ fn.result = SignedInOrder(fn.args.newState, "alice")

\* C30: from a fresh channel, once alice's on-chain deposit of 10 is
\* reconciled the balance is [10, 0]; once alice has created a transfer of 3
\* to bob it is [7, 0] with one active transfer; once bob has resolved it with
\* all of it paid to bob it is [7, 3] with no active transfer.
C30_DepositCreateResolve ==
    /\ ledger.path = "deposited" =>
           /\ ledger.state.balances[1].amount = <<toString(10), toString(0)>>
           /\ ledger.activeTransfers = {}
    /\ ledger.path = "created" =>
           /\ ledger.state.balances[1].amount = <<toString(7), toString(0)>>
           /\ Cardinality(ledger.activeTransfers) = 1
    /\ ledger.path = "resolved" =>
           /\ ledger.state.balances[1].amount = <<toString(7), toString(3)>>
           /\ ledger.activeTransfers = {}

\* the transfer of 3 has been resolved
C30_Witness ==
    /\ ledger.path = "resolved"
    /\ ledger.state.balances[1].to = <<"alice", "bob">>
    /\ ledger.state.processedDepositsA[1] = toString(10)

\* C31: every run of inbound sends exactly one reply to the sender's inbox:
\* the acknowledgement, sent only after the updated state was saved, or one
\* protocol error; no run ends without a reply, an update with nonce <= 0
\* for a channel that is not in the store included.
C31_ExactlyOneReply ==
    ev.op = "inbound" =>
        /\ ~ev.out.threw
        /\ ev.out.reply # NoReply
        /\ ~ev.out.reply.isError =>
               /\ ev.out.saved # <<>>
               /\ store[ev.party].latestUpdate = ev.out.reply.update

\* the index of a participant's side in the channel balance
Side(p) == IF p = "alice" THEN 1 ELSE 2

\* C32: after a create update, the initiator's side of the channel balance is
\* reduced by the whole initial balance of the transfer (the sum of both
\* amount entries) and the responder's side is unchanged.
C32_CreateDeductsFromInitiator ==
    (Returned("getUpdatedChannelBalance") /\ fn.args.type = "create" /\ ~fn.result.threw) =>
        /\ BigNumberFrom(fn.result.amount[Side(fn.args.initiator)])
               = BigNumberFrom(fn.args.state.balances[1].amount[Side(fn.args.initiator)])
                   - (BigNumberFrom(fn.args.balanceToReconcile.amount[1])
                      + BigNumberFrom(fn.args.balanceToReconcile.amount[2]))
        /\ fn.result.amount[Side(Peer(fn.args.initiator))]
               = fn.args.state.balances[1].amount[Side(Peer(fn.args.initiator))]

\* the step in which task t writes the list it loaded into the cache
CacheWrittenBy(t) ==
    /\ reader.tasks[t].pc = "reading"
    /\ reader'.tasks[t].pc = "returned"
    /\ reader'.tasks[t].load = "loaded"

\* C33: for each chain id the registered-transfer cache is written at most
\* once in the lifetime of the chain reader, also when several lookups for
\* that chain id run before the first load has completed.
C33_CacheWrittenOnce ==
    [][ \A t \in Tasks :
            CacheWrittenBy(t) => ~reader.transferRegistries[reader.tasks[t].chainId].has ]_vars

\* the transactions submitted by calls that alice made
SubmittedByAlice ==
    {s \in depositor.submitted : depositor.call[s.call].sender = "alice"}

\* C34: when alice deposits through sendDepositTx while the channel contract
\* is not deployed, neither depositAlice nor a plain transfer is submitted
\* against the undeployed address: the deposit is submitted as
\* createChannelAndDepositAlice, and depositAlice only when the contract is
\* deployed at the time of submission.
C34_AliceDeploysWithDeposit ==
    \A s \in SubmittedByAlice :
        /\ s.method \in {"createChannelAndDepositAlice", "depositAlice"}
        /\ s.method = "depositAlice" => s.code # "0x"
        /\ s.method = "createChannelAndDepositAlice" =>
               s.code = "0x" /\ depositor.call[s.call].code = "0x"
        /\ depositor.call[s.call].code = "0x" /\ s.code = "0x" =>
               s.method = "createChannelAndDepositAlice"

\* alice deployed with her deposit, and deposited again after the deployment
C34_Witness ==
    /\ \E s \in SubmittedByAlice :
          s.method = "createChannelAndDepositAlice" /\ depositor.call[s.call].pc = "returned"
    /\ \E s \in SubmittedByAlice : s.method = "depositAlice"

\* C39: every function placed on the transaction queue eventually runs and
\* finishes, the deploy with deposit that finds the channel deployed and
\* calls sendDepositATx included, and so does what that call queues.
C39_QueueNeverBlocks ==
    \A c \in DepositCalls :
        /\ (depositor.call[c].pc = "queued") ~> (depositor.call[c].pc \in {"sent", "returned"})
        /\ (depositor.call[c].pc = "txFn") ~> (depositor.call[c].pc \in {"sent", "returned"})
        /\ (depositor.call[c].inner = "queued") ~> (depositor.call[c].inner = "done")

\* C35: every protocol message outbound sends carries, next to the proposed
\* update, the latestUpdate of the stored state the proposal was derived
\* from: the loaded state's on the first send, the synced state's
\* double-signed latestUpdate on the resend after a sync.
C35_PreviousUpdateSent ==
    (ev.op = "outbound" /\ ev.sent # {}) =>
        \A m \in ev.sent :
            /\ ev.attempt = 0 => m.previousUpdate = LatestUpdate(ev.replaced)
            /\ ev.attempt = 1 =>
                   /\ m.previousUpdate = ev.out.saved[1].latestUpdate
                   /\ DoubleSigned([ev.out.saved[1] EXCEPT !.latestUpdate = m.previousUpdate])

\* C36: a lookup by definition or by name of a transfer that is absent from
\* the list it is served from returns a ChainError with the reason
\* TransferNotRegistered, and it has searched the list once.
C36_MissSurfacedOnce ==
    \A t \in Tasks :
        (/\ reader.tasks[t].pc = "returned"
         /\ reader.tasks[t].method # "getRegisteredTransfers"
         /\ reader.tasks[t].served.has
         /\ Found(reader.tasks[t].method, reader.tasks[t].key,
                  reader.tasks[t].served.registry) = {})
        => /\ reader.tasks[t].result.isError
           /\ reader.tasks[t].result.error = "TransferNotRegistered"
           /\ reader.tasks[t].finds = 1

\* C37: a run of rebalanceIfNeeded on an EXECUTED rebalance whose status
\* check reported it completed, and that returned without an error, leaves
\* the rebalance saved as COMPLETE, with a transaction in the response and
\* without one.
C37_CompletedIsMarked ==
    (/\ router.returned.result = "ok"
     /\ router.returned.response.read
     /\ router.returned.response.completed)
    => router.rebalances[router.returned.swap].status = "COMPLETE"

\* the funds locked in the given transfers
RECURSIVE LockedIn(_)
LockedIn(transfers) ==
    IF transfers = {} THEN 0
    ELSE BigNumberFrom((CHOOSE t \in transfers : TRUE).balance.amount[1])
         + BigNumberFrom((CHOOSE t \in transfers : TRUE).balance.amount[2])
         + LockedIn(transfers \ {CHOOSE t \in transfers : TRUE})

\* C38: in every state of the channel the two balance amounts of the asset
\* plus the balances locked in its active transfers equal processedDepositsA
\* plus processedDepositsB: deposit, create and resolve neither create nor
\* destroy funds.
C38_FundsConserved ==
    Funds(ledger.state, "alice") + Funds(ledger.state, "bob")
        + LockedIn(ledger.activeTransfers)
    = BigNumberFrom(ledger.state.processedDepositsA[1])
        + BigNumberFrom(ledger.state.processedDepositsB[1])

\* bob holds funds although nothing of his was deposited, and a transfer is
\* still active: a transfer was resolved to him
C38_Witness ==
    /\ ledger.path # "none"
    /\ ledger.state.processedDepositsB[1] = toString(0)
    /\ Funds(ledger.state, "bob") > 0
    /\ Cardinality(ledger.activeTransfers) = 1

\* the assets of a channel, compared case-insensitively
DistinctAssets(channel) ==
    {toLowerCase(channel.assetIds[i]) : i \in 1..Len(channel.assetIds)}

\* every index of the array holds an entry
Dense(array) == \A i \in 1..Len(array) : array[i].set

\* C40: each of the five per-asset arrays of the channel returned by
\* mergeAssetIds has as many indices as the input has distinct assets
\* (compared case-insensitively), and an entry at every one of them.
C40_OneEntryPerAsset ==
    Returned("mergeAssetIds") =>
        /\ Len(fn.result.assetIds) = Cardinality(DistinctAssets(fn.args))
        /\ Len(fn.result.balances) = Cardinality(DistinctAssets(fn.args))
        /\ Len(fn.result.processedDepositsA) = Cardinality(DistinctAssets(fn.args))
        /\ Len(fn.result.processedDepositsB) = Cardinality(DistinctAssets(fn.args))
        /\ Len(fn.result.defundNonces) = Cardinality(DistinctAssets(fn.args))
        /\ Dense(fn.result.assetIds)
        /\ Dense(fn.result.balances)
        /\ Dense(fn.result.processedDepositsA)
        /\ Dense(fn.result.processedDepositsB)
        /\ Dense(fn.result.defundNonces)

====
